---- MODULE Spec2Model ----
(***************************************************************************)
(* A model of the JavaScript comparison engine of pixelmatch               *)
(* (src/src/pixelmatch.ts) with its validator and result builder           *)
(* (src/src/compat.ts).                                                    *)
(*                                                                         *)
(* Numbers.  The code computes in IEEE doubles.  The model computes the    *)
(* same expressions in exact arithmetic: every real quantity is kept as an *)
(* integer numerator over a fixed power-of-ten (and 255) denominator, and  *)
(* the integers, which exceed 32 bits, are kept as little-endian sequences *)
(* of limbs in radix Base.  Comparisons (delta > maxDelta, delta < min,    *)
(* delta === 0, ...) are therefore decided on the exact values.            *)
(***************************************************************************)
EXTENDS Integers, Sequences, FiniteSets, TLC

(***************************************************************************)
(* Exact natural-number arithmetic on limb sequences.                      *)
(***************************************************************************)
Base == 10000

RECURSIVE Carry(_, _)
\* propagate carries through a sequence of non-negative columns
Carry(cols, c) ==
  IF cols = <<>>
  THEN IF c = 0 THEN <<>> ELSE <<c % Base>> \o Carry(<<>>, c \div Base)
  ELSE LET v == Head(cols) + c
       IN  <<v % Base>> \o Carry(Tail(cols), v \div Base)

RECURSIVE Strip(_)
\* canonical form: no zero limb at the top, zero is the empty sequence
Strip(s) ==
  IF s = <<>> THEN <<>>
  ELSE IF s[Len(s)] = 0 THEN Strip(SubSeq(s, 1, Len(s) - 1)) ELSE s

Limb(s, k) == IF k >= 1 /\ k <= Len(s) THEN s[k] ELSE 0

Max2(a, b) == IF a >= b THEN a ELSE b

Min2(a, b) == IF a <= b THEN a ELSE b

Abs(n) == IF n < 0 THEN 0 - n ELSE n

\* a natural number below 2^31 as limbs
Big(n) == Strip(Carry(<<>>, n))

BigAdd(a, b) ==
  Strip(Carry([k \in 1..Max2(Len(a), Len(b)) |-> Limb(a, k) + Limb(b, k)], 0))

RECURSIVE ColSum(_, _, _, _)
\* the k-th column of the schoolbook product: sum of a[i] * b[k + 1 - i]
ColSum(a, b, k, i) ==
  IF i > Len(a) \/ i > k THEN 0
  ELSE a[i] * Limb(b, k + 1 - i) + ColSum(a, b, k, i + 1)

\* a times the single limb w
Scale(a, w) == Strip(Carry([k \in 1..Len(a) |-> a[k] * w], 0))

BigMul(a, b) ==
  IF a = <<>> \/ b = <<>> THEN <<>>
  ELSE IF Len(b) = 1 THEN Scale(a, b[1])
  ELSE IF Len(a) = 1 THEN Scale(b, a[1])
  ELSE Strip(Carry([k \in 1..(Len(a) + Len(b) - 1) |-> ColSum(a, b, k, 1)], 0))

\* a * a for a of at most four limbs, as 2 * Len(a) limbs
Square(a) ==
  Carry([k \in 1..(2 * Len(a)) |->
           Limb(a, 1) * Limb(a, k) + Limb(a, 2) * Limb(a, k - 1)
             + Limb(a, 3) * Limb(a, k - 2) + Limb(a, 4) * Limb(a, k - 3)], 0)

RECURSIVE CmpFrom(_, _, _)
CmpFrom(a, b, k) ==
  IF k = 0 THEN 0
  ELSE IF a[k] < b[k] THEN -1
  ELSE IF a[k] > b[k] THEN 1
  ELSE CmpFrom(a, b, k - 1)

\* -1, 0 or 1 as a < b, a = b, a > b (both canonical)
BigCmp(a, b) ==
  IF Len(a) < Len(b) THEN -1
  ELSE IF Len(a) > Len(b) THEN 1
  ELSE CmpFrom(a, b, Len(a))

RECURSIVE Borrow(_, _, _, _)
Borrow(a, b, k, c) ==
  IF k > Len(a) THEN <<>>
  ELSE LET v == a[k] - Limb(b, k) - c
       IN  IF v < 0 THEN <<v + Base>> \o Borrow(a, b, k + 1, 1)
           ELSE <<v>> \o Borrow(a, b, k + 1, 0)

\* a - b for a >= b
BigSub(a, b) == Strip(Borrow(a, b, 1, 0))

\* drop the n lowest limbs: floor(a / Base^n)
BigShr(a, n) == IF Len(a) <= n THEN <<>> ELSE SubSeq(a, n + 1, Len(a))

\* prepend n zero limbs: a * Base^n
BigShl(a, n) == IF a = <<>> THEN <<>> ELSE [k \in 1..n |-> 0] \o a

(***************************************************************************)
(* Signed numbers: [s |-> -1 | 0 | 1, m |-> magnitude].                    *)
(***************************************************************************)
SZero == [s |-> 0, m |-> <<>>]

\* the signed number p - n of two naturals
SDiff(p, n) ==
  LET c == BigCmp(p, n)
  IN  IF c = 0 THEN SZero
      ELSE IF c > 0 THEN [s |-> 1, m |-> BigSub(p, n)]
      ELSE [s |-> -1, m |-> BigSub(n, p)]

\* -1, 0 or 1 as x < y, x = y, x > y
SCmp(x, y) ==
  IF x.s # y.s THEN (IF x.s < y.s THEN -1 ELSE 1)
  ELSE x.s * BigCmp(x.m, y.m)

SNeg(x) == [s |-> 0 - x.s, m |-> x.m]

(***************************************************************************)
(* The pixels and thresholds of the calls explored: the first NumColours   *)
(* colours of Palette as RGBA samples, thresholds as rationals <<n, d>>.   *)
(***************************************************************************)
NumColours == 3

Palette ==
  << <<0, 0, 0, 255>>, <<255, 255, 255, 255>>, <<255, 0, 0, 128>>,
     <<128, 128, 128, 255>>, <<0, 0, 255, 0>>, <<120, 130, 125, 255>> >>

Colours == {Palette[c] : c \in 1..Min2(NumColours, Len(Palette))}

Thresholds == {<<0, 1>>, <<1, 10>>, <<1, 2>>, <<1, 1>>}

(***************************************************************************)
(* colorDelta (pixelmatch.ts 193-231).  A data buffer is a sequence of     *)
(* bytes; byte offset k of the code is element k + 1 of the sequence.      *)
(* Channel differences are kept times 255 (the blend divides by 255), the  *)
(* YIQ coefficients times 10^8, so y, i and q carry the factor 255 * 10^8  *)
(* and the squared distance the factor 10^4 * 255^2 * 10^16.               *)
(***************************************************************************)
At(data, k) == data[k + 1]

\* the sign of a machine integer
Sgn(n) == IF n > 0 THEN 1 ELSE IF n < 0 THEN -1 ELSE 0

\* the j-th digit in radix 1000 of the machine integer c, with the sign of c
Part(c, j) ==
  Sgn(c) * (IF j = 0 THEN Abs(c) % 1000
            ELSE IF j = 1 THEN (Abs(c) \div 1000) % 1000
            ELSE Abs(c) \div 1000000)

\* the signed number t * 10^6 + l for a machine integer t and 0 <= l < 10^6
FromParts(t, l) ==
  LET neg == t < 0
      hi == IF ~neg THEN t ELSE IF l = 0 THEN 0 - t ELSE 0 - t - 1
      lo == IF ~neg \/ l = 0 THEN l ELSE 1000000 - l
      m == Strip(<<lo % 10000,
                   (lo \div 10000) + 100 * (hi % 100),
                   (hi \div 100) % 10000,
                   hi \div 1000000>>)
  IN  [s |-> IF m = <<>> THEN 0 ELSE IF neg THEN -1 ELSE 1, m |-> m]

\* c[1] * d1 + c[2] * d2 + c[3] * d3 for machine integers below 10^8 and 2^17:
\* the products are formed digit by digit of c so that no sum leaves 32 bits
Lin(c, d1, d2, d3) ==
  LET s0 == Part(c[1], 0) * d1 + Part(c[2], 0) * d2 + Part(c[3], 0) * d3
      s1 == Part(c[1], 1) * d1 + Part(c[2], 1) * d2 + Part(c[3], 1) * d3
      s2 == Part(c[1], 2) * d1 + Part(c[2], 2) * d2 + Part(c[3], 2) * d3
      v1 == s1 + (s0 \div 1000)
  IN  FromParts(s2 + (v1 \div 1000), 1000 * (v1 % 1000) + (s0 % 1000))

\* 1.618033988749895 * 10^15 and 2.618033988749895 * 10^15
Phi1 == <<9895, 8874, 339, 1618>>

Phi2 == <<9895, 8874, 339, 2618>>

\* (k / phi) | 0 for k >= 0: the q with q * phi <= k < (q + 1) * phi, which
\* lies between the quotients by the three-decimal roundings of phi
FloorDiv(k, phi) ==
  LET low == (k * 1000) \div (phi[4] + 1)
      high == (k * 1000) \div phi[4]
  IN  IF low = high THEN low
      ELSE CHOOSE q \in low..high :
             /\ BigCmp(BigMul(Big(q), phi), BigShl(Big(k * 1000), 3)) <= 0
             /\ BigCmp(BigMul(Big(q + 1), phi), BigShl(Big(k * 1000), 3)) > 0

\* the sample at byte offset k (lines 194-201)
Sample(img, k) == <<At(img, k), At(img, k + 1), At(img, k + 2), At(img, k + 3)>>

\* the background under the sample at byte offset k (lines 209-211)
Background(k) ==
  <<48 + 159 * (k % 2),
    48 + 159 * (FloorDiv(k, Phi1) % 2),
    48 + 159 * (FloorDiv(k, Phi2) % 2)>>

\* the backgrounds there are
Backgrounds == {<<r, g, b>> : r \in {48, 207}, g \in {48, 207}, b \in {48, 207}}

\* the three channel differences times 255 of the samples p and q over the
\* background bg (lines 203-218)
Diffs(p, q, bg) ==
  IF p[4] < 255 \/ q[4] < 255
  THEN <<p[1] * p[4] - q[1] * q[4] - bg[1] * (p[4] - q[4]),
         p[2] * p[4] - q[2] * q[4] - bg[2] * (p[4] - q[4]),
         p[3] * p[4] - q[3] * q[4] - bg[3] * (p[4] - q[4])>>
  ELSE <<255 * (p[1] - q[1]), 255 * (p[2] - q[2]), 255 * (p[3] - q[3])>>

ChannelDiffs(img1, img2, k, m) == Diffs(Sample(img1, k), Sample(img2, m), Background(k))

SameSample(img1, img2, k, m) ==
  /\ At(img1, k) = At(img2, m)
  /\ At(img1, k + 1) = At(img2, m + 1)
  /\ At(img1, k + 2) = At(img2, m + 2)
  /\ At(img1, k + 3) = At(img2, m + 3)

\* the coefficients of lines 220, 224, 225 and 227, times 10^8 and 10^4
CoefY == <<29889531, 58662247, 11448223>>

CoefI == <<59597799, -27417610, -32180189>>

CoefQ == <<21147017, -52261711, 31114694>>

\* the weights of line 227 with those of y and i exchanged
WeightsExchanged == <<2990, 5053, 1957>>

Weights == <<5053, 2990, 1957>>

\* y times 255 * 10^8 (line 220)
Luma(d) == Lin(CoefY, d[1], d[2], d[3])

\* Weights[1] * y2 + Weights[2] * i2 + Weights[3] * q2 for squares of at most
\* eight limbs
WeightedSum(y2, i2, q2) ==
  Strip(Carry([k \in 1..8 |-> Weights[1] * Limb(y2, k) + Weights[2] * Limb(i2, k)
                               + Weights[3] * Limb(q2, k)], 0))

\* line 227 without the weights: y^2 + i^2 + q^2 on the scale of Distance
DistancePlain(d) ==
  Strip(BigMul(Big(10000),
               BigAdd(BigAdd(Square(Luma(d).m), Square(Lin(CoefI, d[1], d[2], d[3]).m)),
                      Square(Lin(CoefQ, d[1], d[2], d[3]).m))))

\* 10^4 * 255^2 * 10^16 times (0.5053 y^2 + 0.299 i^2 + 0.1957 q^2) (line 227)
Distance(d) ==
  WeightedSum(Square(Luma(d).m),
              Square(Lin(CoefI, d[1], d[2], d[3]).m),
              Square(Lin(CoefQ, d[1], d[2], d[3]).m))

\* line 230 with the two signs exchanged
WithSignFlipped(y, delta) ==
  IF delta = <<>> THEN SZero ELSE [s |-> IF y.s > 0 THEN 1 ELSE -1, m |-> delta]

\* line 230: the sign tells whether the pixel lightens or darkens
WithSign(y, delta) ==
  IF delta = <<>> THEN SZero ELSE [s |-> IF y.s > 0 THEN -1 ELSE 1, m |-> delta]

\* lines 220-230 on the channel differences d
DeltaOf(d, yOnly) == IF yOnly THEN Luma(d) ELSE WithSign(Luma(d), Distance(d))

\* the channel differences between the colours explored, and their deltas,
\* computed once
KnownDiffs == {Diffs(p, q, bg) : p \in Colours, q \in Colours, bg \in Backgrounds}

KnownDeltas == [d \in KnownDiffs, yOnly \in BOOLEAN |-> DeltaOf(d, yOnly)]

Delta(d, yOnly) == IF d \in KnownDiffs THEN KnownDeltas[d, yOnly] ELSE DeltaOf(d, yOnly)

colorDelta(img1, img2, k, m, yOnly) ==
  IF SameSample(img1, img2, k, m) THEN SZero
  ELSE Delta(ChannelDiffs(img1, img2, k, m), yOnly)

(***************************************************************************)
(* maxDelta = 35215 * threshold * threshold (line 50), threshold a         *)
(* rational <<n, d>>; on the scale of Distance it is num / den.            *)
(***************************************************************************)
\* 35215 on the scale of Distance: 35215 * 255^2 * 10^20
MaxMetric == BigShl(BigMul(Big(35215), Big(65025)), 5)

MaxDeltaOf(threshold) ==
  [num |-> BigMul(MaxMetric, Big(threshold[1] * threshold[1])),
   den |-> Big(threshold[2] * threshold[2])]

\* the cutoffs of the thresholds explored, computed once
KnownMaxDeltas == [t \in Thresholds |-> MaxDeltaOf(t)]

MaxDelta(threshold) ==
  IF threshold \in Thresholds THEN KnownMaxDeltas[threshold] ELSE MaxDeltaOf(threshold)

\* the comparison of line 67 turned round
BelowThreshold(delta, maxDelta) ==
  /\ delta.s # 0
  /\ BigCmp(BigMul(delta.m, maxDelta.den), maxDelta.num) < 0

\* line 67 without Math.abs: delta > maxDelta
AboveThresholdSigned(delta, maxDelta) ==
  /\ delta.s > 0
  /\ BigCmp(BigMul(delta.m, maxDelta.den), maxDelta.num) > 0

\* Math.abs(delta) > maxDelta (line 67); maxDelta >= 0, so 0 never exceeds it
AboveThreshold(delta, maxDelta) ==
  /\ delta.s # 0
  /\ BigCmp(BigMul(delta.m, maxDelta.den), maxDelta.num) > 0

(***************************************************************************)
(* The compositor (pixelmatch.ts 233-244).  The output buffer is a         *)
(* Uint8Array: an element assignment stores the integer part of the value. *)
(***************************************************************************)
RECURSIVE ToInt(_)
\* the machine integer of a limb sequence (below 2^31)
ToInt(s) == IF s = <<>> THEN 0 ELSE Head(s) + Base * ToInt(Tail(s))

\* drawPixel with the alpha byte stored one element too far
drawPixelShifted(output, pos, r, g, b) ==
  [bytes |-> [k \in 1..Len(output.bytes) |->
                IF k = pos + 1 THEN r
                ELSE IF k = pos + 2 THEN g
                ELSE IF k = pos + 3 THEN b
                ELSE IF k = pos + 5 THEN 255
                ELSE output.bytes[k]],
   writes |-> Append(output.writes, pos)]

\* an output buffer is [bytes, writes]: its contents and, for the properties
\* about writes, the offsets drawPixel was called with, in order
drawPixel(output, pos, r, g, b) ==
  [bytes |-> [output.bytes EXCEPT ![pos + 1] = r, ![pos + 2] = g,
                                  ![pos + 3] = b, ![pos + 4] = 255],
   writes |-> Append(output.writes, pos)]

\* 255 on the scale of the luma: 255 * 10^8
White == BigShl(Big(255), 2)

\* the byte stored for val = 255 + ((luma - 255) * alpha * a) / 255, alpha = <<n, d>>
GrayValue(img, i, alpha) ==
  LET luma == Lin(CoefY, At(img, i), At(img, i + 1), At(img, i + 2))
      white == White
      f == alpha[1] * At(img, i + 3)
  IN  IF BigCmp(luma.m, white) >= 0 \/ f = 0 THEN 255
      ELSE LET num == BigMul(BigSub(white, luma.m), Big(f))
               hi == ToInt(BigShr(num, 2))
               d == 255 * alpha[2]
               exact == (BigShl(BigShr(num, 2), 2) = num) /\ (hi % d = 0)
           IN  255 - ((hi \div d) + (IF exact THEN 0 ELSE 1))

drawGrayPixel(img, i, alpha, output) ==
  LET val == GrayValue(img, i, alpha)
  IN  drawPixel(output, i, val, val, val)

(***************************************************************************)
(* hasManySiblings and antialiased (pixelmatch.ts 118-187).  A word array  *)
(* (Uint32Array over a data buffer) is read through Word: two words are    *)
(* equal exactly when their four bytes are.                                *)
(***************************************************************************)
Word(data, i) == SubSeq(data, 4 * i + 1, 4 * i + 4)

\* the neighbours of (x1, y1) in the order of the loops: x outer, y inner
Neighbours(x1, y1, width, height) ==
  LET x0 == Max2(x1 - 1, 0)
      y0 == Max2(y1 - 1, 0)
      x2 == Min2(x1 + 1, width - 1)
      y2 == Min2(y1 + 1, height - 1)
      nx == x2 - x0 + 1
      ny == y2 - y0 + 1
      all == [k \in 1..(nx * ny) |-> <<x0 + ((k - 1) \div ny), y0 + ((k - 1) % ny)>>]
  IN  SelectSeq(all, LAMBDA p : p # <<x1, y1>>)

\* the initial value of zeroes: 1 on an image border (lines 132, 176)
OnBorder(x1, y1, width, height) ==
  LET x0 == Max2(x1 - 1, 0)
      y0 == Max2(y1 - 1, 0)
      x2 == Min2(x1 + 1, width - 1)
      y2 == Min2(y1 + 1, height - 1)
  IN  IF x1 = x0 \/ x1 = x2 \/ y1 = y0 \/ y1 = y2 THEN 1 ELSE 0

RECURSIVE SiblingLoop(_, _, _, _, _)
SiblingLoop(img, val, nbrs, width, zeroes) ==
  IF nbrs = <<>> THEN FALSE
  ELSE LET p == Head(nbrs)
           z == zeroes + (IF val = Word(img, p[2] * width + p[1]) THEN 1 ELSE 0)
       IN  IF z > 2 THEN TRUE
           ELSE SiblingLoop(img, val, Tail(nbrs), width, z)

\* lines 170-187 with zeroes starting from 0 on a border too
hasManySiblingsNoBonus(img, x1, y1, width, height) ==
  SiblingLoop(img, Word(img, y1 * width + x1),
              Neighbours(x1, y1, width, height), width, 0)

hasManySiblings(img, x1, y1, width, height) ==
  SiblingLoop(img, Word(img, y1 * width + x1),
              Neighbours(x1, y1, width, height), width,
              OnBorder(x1, y1, width, height))

\* the byte offset of the pixel p = <<x, y>>
PosOf(p, width) == (p[2] * width + p[1]) * 4

\* lines 141-148 for one neighbour, on acc = [flat, zeroes, min, max];
\* flat records the early return of line 143
Pass1Step(acc, delta) ==
  IF delta.s = 0
  THEN [flat |-> acc.zeroes + 1 > 2, zeroes |-> acc.zeroes + 1,
        min |-> acc.min, max |-> acc.max]
  ELSE IF SCmp(delta, acc.min) < 0
  THEN [flat |-> FALSE, zeroes |-> acc.zeroes, min |-> delta, max |-> acc.max]
  ELSE IF SCmp(delta, acc.max) > 0
  THEN [flat |-> FALSE, zeroes |-> acc.zeroes, min |-> acc.min, max |-> delta]
  ELSE acc

RECURSIVE Pass1(_, _, _, _, _)
\* lines 137-150
Pass1(img, pos, nbrs, width, acc) ==
  IF nbrs = <<>> \/ acc.flat THEN acc
  ELSE Pass1(img, pos, Tail(nbrs), width,
             Pass1Step(acc, colorDelta(img, img, pos, PosOf(Head(nbrs), width), TRUE)))

\* line 161
IsExtreme(delta, min, max) == delta = min \/ delta = max

\* line 162 with the test of upstream: many siblings in both images
BothHaveManySiblings(a32, b32, p, width, height) ==
  /\ hasManySiblings(a32, p[1], p[2], width, height)
  /\ hasManySiblings(b32, p[1], p[2], width, height)

\* line 162
EitherHasManySiblings(a32, b32, p, width, height) ==
  \/ hasManySiblings(a32, p[1], p[2], width, height)
  \/ hasManySiblings(b32, p[1], p[2], width, height)

RECURSIVE Pass2LastOnly(_, _, _, _, _, _, _, _, _)
\* lines 157-166 as upstream has them: of the neighbours with the minimum
\* delta, and of those with the maximum, only the last one visited is tested
Pass2LastOnly(img, pos, nbrs, width, height, min, max, a32, b32) ==
  IF nbrs = <<>> THEN FALSE
  ELSE IF /\ IsExtreme(colorDelta(img, img, pos, PosOf(Head(nbrs), width), TRUE), min, max)
          /\ \A k \in 2..Len(nbrs) :
               colorDelta(img, img, pos, PosOf(nbrs[k], width), TRUE)
                 # colorDelta(img, img, pos, PosOf(Head(nbrs), width), TRUE)
          /\ EitherHasManySiblings(a32, b32, Head(nbrs), width, height)
  THEN TRUE
  ELSE Pass2LastOnly(img, pos, Tail(nbrs), width, height, min, max, a32, b32)

RECURSIVE Pass2(_, _, _, _, _, _, _, _, _)
\* lines 157-166
Pass2(img, pos, nbrs, width, height, min, max, a32, b32) ==
  IF nbrs = <<>> THEN FALSE
  ELSE IF /\ IsExtreme(colorDelta(img, img, pos, PosOf(Head(nbrs), width), TRUE), min, max)
          /\ EitherHasManySiblings(a32, b32, Head(nbrs), width, height)
  THEN TRUE
  ELSE Pass2(img, pos, Tail(nbrs), width, height, min, max, a32, b32)

\* lines 153-166 with line 153 requiring both extremes to be zero
AfterPass1Both(img, pos, nbrs, width, height, p1, a32, b32) ==
  IF p1.flat THEN FALSE
  ELSE IF p1.min.s = 0 /\ p1.max.s = 0 THEN FALSE
  ELSE Pass2(img, pos, nbrs, width, height, p1.min, p1.max, a32, b32)

\* lines 153-166 with line 153 returning true
AfterPass1Keen(img, pos, nbrs, width, height, p1, a32, b32) ==
  IF p1.flat THEN FALSE
  ELSE IF p1.min.s = 0 \/ p1.max.s = 0 THEN TRUE
  ELSE Pass2(img, pos, nbrs, width, height, p1.min, p1.max, a32, b32)

\* lines 153-166, on the outcome of pass 1
AfterPass1(img, pos, nbrs, width, height, p1, a32, b32) ==
  IF p1.flat THEN FALSE
  ELSE IF p1.min.s = 0 \/ p1.max.s = 0 THEN FALSE
  ELSE Pass2(img, pos, nbrs, width, height, p1.min, p1.max, a32, b32)

antialiased(img, x1, y1, width, height, a32, b32) ==
  AfterPass1(img, (y1 * width + x1) * 4, Neighbours(x1, y1, width, height), width, height,
             Pass1(img, (y1 * width + x1) * 4, Neighbours(x1, y1, width, height), width,
                   [flat |-> FALSE, zeroes |-> OnBorder(x1, y1, width, height),
                    min |-> SZero, max |-> SZero]),
             a32, b32)

(***************************************************************************)
(* validateInput and buildResult (compat.ts 38-71).  An image              *)
(* is [data, isPixelData, byteOffset, width, height]; isPixelData is the   *)
(* outcome of isPixelData(data) (compat.ts 34-36), byteOffset the offset   *)
(* of the view in its ArrayBuffer.  The output buffer is described by      *)
(* options.output: "none" (undefined), "bytes" (a Uint8Array) or "array"   *)
(* (some other object), and by its contents.                               *)
(***************************************************************************)
NoError == <<>>

Error(kind, a, b) == <<[kind |-> kind, first |-> a, second |-> b]>>

\* validateInput with the output length checked right after the buffer types
validateInputOutputFirst(img1, img2, outKind, out) ==
  LET expected == img1.width * img1.height * 4
  IN  IF ~img1.isPixelData \/ ~img2.isPixelData
      THEN Error("ImageData", <<>>, <<>>)
      ELSE IF outKind # "none" /\ outKind # "bytes"
      THEN Error("OutputData", <<>>, <<>>)
      ELSE IF outKind # "none" /\ Len(out) # expected
      THEN Error("OutputSize", <<expected>>, <<Len(out)>>)
      ELSE IF img1.width # img2.width \/ img1.height # img2.height
      THEN Error("ImageDimensions", <<img1.width, img1.height>>, <<img2.width, img2.height>>)
      ELSE IF Len(img1.data) # Len(img2.data)
      THEN Error("ImageSizes", <<Len(img1.data)>>, <<Len(img2.data)>>)
      ELSE IF Len(img1.data) # expected
      THEN Error("ImageDataSize", <<expected>>, <<Len(img1.data)>>)
      ELSE NoError

\* validateInput with the data lengths compared before the dimensions
validateInputSizesFirst(img1, img2, outKind, out) ==
  LET expected == img1.width * img1.height * 4
  IN  IF ~img1.isPixelData \/ ~img2.isPixelData
      THEN Error("ImageData", <<>>, <<>>)
      ELSE IF outKind # "none" /\ outKind # "bytes"
      THEN Error("OutputData", <<>>, <<>>)
      ELSE IF Len(img1.data) # Len(img2.data)
      THEN Error("ImageSizes", <<Len(img1.data)>>, <<Len(img2.data)>>)
      ELSE IF Len(img1.data) # expected
      THEN Error("ImageDataSize", <<expected>>, <<Len(img1.data)>>)
      ELSE IF img1.width # img2.width \/ img1.height # img2.height
      THEN Error("ImageDimensions", <<img1.width, img1.height>>, <<img2.width, img2.height>>)
      ELSE IF outKind # "none" /\ Len(out) # expected
      THEN Error("OutputSize", <<expected>>, <<Len(out)>>)
      ELSE NoError

validateInput(img1, img2, outKind, out) ==
  LET expected == img1.width * img1.height * 4
  IN  IF ~img1.isPixelData \/ ~img2.isPixelData
      THEN Error("ImageData", <<>>, <<>>)
      ELSE IF outKind # "none" /\ outKind # "bytes"
      THEN Error("OutputData", <<>>, <<>>)
      ELSE IF img1.width # img2.width \/ img1.height # img2.height
      THEN Error("ImageDimensions", <<img1.width, img1.height>>, <<img2.width, img2.height>>)
      ELSE IF Len(img1.data) # Len(img2.data)
      THEN Error("ImageSizes", <<Len(img1.data)>>, <<Len(img2.data)>>)
      ELSE IF Len(img1.data) # expected
      THEN Error("ImageDataSize", <<expected>>, <<Len(img1.data)>>)
      ELSE IF outKind # "none" /\ Len(out) # expected
      THEN Error("OutputSize", <<expected>>, <<Len(out)>>)
      ELSE NoError

\* buildResult dividing whatever totalPixels is
buildResultUnguarded(diffCount, aaCount, totalPixels, identical) ==
  [diffCount |-> diffCount,
   diffPercentage |-> <<diffCount, totalPixels>>,
   totalPixels |-> totalPixels,
   aaCount |-> aaCount,
   identical |-> identical]

\* diffPercentage is the fraction <<numerator, denominator>>
buildResult(diffCount, aaCount, totalPixels, identical) ==
  [diffCount |-> diffCount,
   diffPercentage |-> IF totalPixels > 0 THEN <<diffCount, totalPixels>> ELSE <<0, 1>>,
   totalPixels |-> totalPixels,
   aaCount |-> aaCount,
   identical |-> identical]

(***************************************************************************)
(* pixelmatch (pixelmatch.ts 11-97), as functions of the inputs.           *)
(***************************************************************************)
\* lines 30-31: new Uint32Array(buffer, byteOffset, len) throws a RangeError
\* when byteOffset is not a multiple of 4
WordViewsThrow(img1, img2) == img1.byteOffset % 4 # 0 \/ img2.byteOffset % 4 # 0

RECURSIVE FirstMismatch(_, _, _, _)
\* lines 34-39: the index at which the loop breaks, len if it runs to the end
FirstMismatch(a32, b32, len, i) ==
  IF i >= len THEN len
  ELSE IF Word(a32, i) # Word(b32, i) THEN i
  ELSE FirstMismatch(a32, b32, len, i + 1)

RECURSIVE DrawAllGray(_, _, _, _, _)
\* line 43
DrawAllGray(data1, alpha, output, len, i) ==
  IF i >= len THEN output
  ELSE DrawAllGray(data1, alpha, drawGrayPixel(data1, 4 * i, alpha, output), len, i + 1)

\* lines 40-46 without the diffMask test
FastPathOutputUnmasked(data1, options, output, len) ==
  IF options.output # "none"
  THEN DrawAllGray(data1, options.alpha, output, len, 0)
  ELSE output

\* lines 40-46: the output buffer after the fast path
FastPathOutput(data1, options, output, len) ==
  IF options.output # "none" /\ ~options.diffMask
  THEN DrawAllGray(data1, options.alpha, output, len, 0)
  ELSE output

\* the test of lines 69-72 without the detectAntiAliasing flag
IsAAAlways(data1, data2, x, y, width, height, options) ==
  \/ antialiased(data1, x, y, width, height, data1, data2)
  \/ antialiased(data2, x, y, width, height, data2, data1)

\* lines 69-72
IsAA(data1, data2, x, y, width, height, options) ==
  /\ options.detectAntiAliasing
  /\ \/ antialiased(data1, x, y, width, height, data1, data2)
     \/ antialiased(data2, x, y, width, height, data2, data1)

\* line 53
AltColor(options) ==
  IF options.diffColorAlt # <<>> THEN options.diffColorAlt ELSE options.diffColor

\* lines 81-85 with the two colours swapped
DiffColorSwapped(options, delta) ==
  IF delta.s < 0 THEN options.diffColor ELSE AltColor(options)

\* the colour drawn for a difference (lines 81-85)
DiffColor(options, delta) ==
  IF delta.s < 0 THEN AltColor(options) ELSE options.diffColor

DrawColor(output, pos, c) == drawPixel(output, pos, c[1], c[2], c[3])

\* lines 67-92 without the background of lines 89-92
ClassifyNoBackground(data1, data2, width, height, options, st, i, delta) ==
  IF AboveThreshold(delta, MaxDelta(options.threshold))
  THEN IF IsAA(data1, data2, i % width, i \div width, width, height, options)
       THEN [diff |-> st.diff,
             aaCount |-> st.aaCount + 1,
             output |-> IF options.output # "none" /\ ~options.diffMask
                        THEN DrawColor(st.output, i * 4, options.aaColor)
                        ELSE st.output]
       ELSE [diff |-> st.diff + 1,
             aaCount |-> st.aaCount,
             output |-> IF options.output # "none"
                        THEN DrawColor(st.output, i * 4, DiffColor(options, delta))
                        ELSE st.output]
  ELSE st

\* lines 67-92 with anti-aliased pixels drawn in a mask too
ClassifyMaskDrawsAA(data1, data2, width, height, options, st, i, delta) ==
  IF AboveThreshold(delta, MaxDelta(options.threshold))
  THEN IF IsAA(data1, data2, i % width, i \div width, width, height, options)
       THEN [diff |-> st.diff,
             aaCount |-> st.aaCount + 1,
             output |-> IF options.output # "none"
                        THEN DrawColor(st.output, i * 4, options.aaColor)
                        ELSE st.output]
       ELSE [diff |-> st.diff + 1,
             aaCount |-> st.aaCount,
             output |-> IF options.output # "none"
                        THEN DrawColor(st.output, i * 4, DiffColor(options, delta))
                        ELSE st.output]
  ELSE [diff |-> st.diff,
        aaCount |-> st.aaCount,
        output |-> IF options.output # "none" /\ ~options.diffMask
                   THEN drawGrayPixel(data1, i * 4, options.alpha, st.output)
                   ELSE st.output]

\* lines 67-92 with the difference counted only where it is drawn
ClassifyDrawnOnly(data1, data2, width, height, options, st, i, delta) ==
  IF AboveThreshold(delta, MaxDelta(options.threshold))
  THEN IF IsAA(data1, data2, i % width, i \div width, width, height, options)
       THEN [diff |-> st.diff,
             aaCount |-> st.aaCount + 1,
             output |-> IF options.output # "none" /\ ~options.diffMask
                        THEN DrawColor(st.output, i * 4, options.aaColor)
                        ELSE st.output]
       ELSE [diff |-> IF options.output # "none" THEN st.diff + 1 ELSE st.diff,
             aaCount |-> st.aaCount,
             output |-> IF options.output # "none"
                        THEN DrawColor(st.output, i * 4, DiffColor(options, delta))
                        ELSE st.output]
  ELSE [diff |-> st.diff,
        aaCount |-> st.aaCount,
        output |-> IF options.output # "none" /\ ~options.diffMask
                   THEN drawGrayPixel(data1, i * 4, options.alpha, st.output)
                   ELSE st.output]

\* lines 67-92, on st = [diff, aaCount, output] and the delta of line 64
Classify(data1, data2, width, height, options, st, i, delta) ==
  IF AboveThreshold(delta, MaxDelta(options.threshold))
  THEN IF IsAA(data1, data2, i % width, i \div width, width, height, options)
       THEN [diff |-> st.diff,
             aaCount |-> st.aaCount + 1,
             output |-> IF options.output # "none" /\ ~options.diffMask
                        THEN DrawColor(st.output, i * 4, options.aaColor)
                        ELSE st.output]
       ELSE [diff |-> st.diff + 1,
             aaCount |-> st.aaCount,
             output |-> IF options.output # "none"
                        THEN DrawColor(st.output, i * 4, DiffColor(options, delta))
                        ELSE st.output]
  ELSE [diff |-> st.diff,
        aaCount |-> st.aaCount,
        output |-> IF options.output # "none" /\ ~options.diffMask
                   THEN drawGrayPixel(data1, i * 4, options.alpha, st.output)
                   ELSE st.output]

\* lines 60-92: one iteration of the loops, for the pixel i = y * width + x
ScanStep(data1, data2, width, height, options, st, i) ==
  Classify(data1, data2, width, height, options, st, i,
           IF Word(data1, i) = Word(data2, i) THEN SZero
           ELSE colorDelta(data1, data2, i * 4, i * 4, FALSE))

RECURSIVE ScanFrom(_, _, _, _, _, _, _)
\* lines 58-94 from pixel i on
ScanFrom(data1, data2, width, height, options, st, i) ==
  IF i >= width * height THEN st
  ELSE ScanFrom(data1, data2, width, height, options,
                ScanStep(data1, data2, width, height, options, st, i), i + 1)

\* the whole call: [err, result, output], result and err sequences of length <= 1
Pixelmatch(img1, img2, options, output) ==
  LET e == validateInput(img1, img2, options.output, output.bytes)
      len == img1.width * img1.height
  IN  IF e # NoError THEN [err |-> e, result |-> <<>>, output |-> output]
      ELSE IF WordViewsThrow(img1, img2)
      THEN [err |-> Error("RangeError", <<>>, <<>>), result |-> <<>>, output |-> output]
      ELSE IF FirstMismatch(img1.data, img2.data, len, 0) = len
      THEN [err |-> NoError,
            result |-> <<buildResult(0, 0, len, TRUE)>>,
            output |-> FastPathOutput(img1.data, options, output, len)]
      ELSE LET st == ScanFrom(img1.data, img2.data, img1.width, img1.height, options,
                              [diff |-> 0, aaCount |-> 0, output |-> output], 0)
           IN  [err |-> NoError,
                result |-> <<buildResult(st.diff, st.aaCount, len, FALSE)>>,
                output |-> st.output]

(***************************************************************************)
(* The inputs of a call.                                                   *)
(***************************************************************************)
MaxChanged == 2

Shapes == {<<0, 0>>, <<0, 2>>, <<1, 0>>, <<1, 1>>, <<2, 1>>, <<1, 2>>, <<2, 2>>}

\* alpha, aaColor, diffColor, diffColorAlt: the defaults of lines 14-18
DefaultStyle ==
  [alpha |-> <<1, 10>>, aaColor |-> <<255, 255, 0>>, diffColor |-> <<255, 0, 0>>,
   diffColorAlt |-> <<>>]

\* the choice of the test "2diff", with a diffColorAlt
OtherStyle ==
  [alpha |-> <<1, 2>>, aaColor |-> <<0, 192, 0>>, diffColor |-> <<255, 0, 255>>,
   diffColorAlt |-> <<0, 255, 0>>]

\* the drawing options of a call: output kind, diffMask and style
Modes ==
  {[output |-> "none", diffMask |-> FALSE, style |-> DefaultStyle],
   [output |-> "none", diffMask |-> TRUE, style |-> OtherStyle],
   [output |-> "bytes", diffMask |-> FALSE, style |-> DefaultStyle],
   [output |-> "bytes", diffMask |-> FALSE, style |-> OtherStyle],
   [output |-> "bytes", diffMask |-> TRUE, style |-> OtherStyle]}

MakeOptions(t, aa, mode) ==
  [threshold |-> t, alpha |-> mode.style.alpha, aaColor |-> mode.style.aaColor,
   diffColor |-> mode.style.diffColor, diffColorAlt |-> mode.style.diffColorAlt,
   detectAntiAliasing |-> aa, diffMask |-> mode.diffMask, output |-> mode.output]

\* the defaults of lines 12-21
DefaultMode == [output |-> "none", diffMask |-> FALSE, style |-> DefaultStyle]

DefaultOptions == MakeOptions(<<1, 10>>, TRUE, DefaultMode)

\* every threshold without an output, every drawing mode at the default threshold
Options ==
  {MakeOptions(t, aa, DefaultMode) : t \in Thresholds, aa \in BOOLEAN}
    \cup {MakeOptions(<<1, 10>>, aa, mode) : aa \in BOOLEAN, mode \in Modes}

\* the bytes of n RGBA pixels
Flatten(pixels, n) ==
  [b \in 1..(4 * n) |-> pixels[((b - 1) \div 4) + 1][((b - 1) % 4) + 1]]

Image(pixels, shape) ==
  [data |-> Flatten(pixels, shape[1] * shape[2]), isPixelData |-> TRUE, byteOffset |-> 0,
   width |-> shape[1], height |-> shape[2]]

\* a buffer of n bytes as the caller allocates it
Blank(n) == [bytes |-> [k \in 1..n |-> 0], writes |-> <<>>]

VARIABLES img1, img2, options, output, pc, i, diff, aaCount, result, err, compared,
          par, cli, backend

\* par: the work of a partitioned scan; cli: the command-line run around the
\* call; backend: the loading of the engine.  Each is Idle in a plain call.
aux == <<par, cli, backend>>

vars == <<img1, img2, options, output, pc, i, diff, aaCount, result, err, compared, aux>>

Idle == [pc |-> "none"]

Start ==
  /\ pc = "validate"
  /\ i = 0
  /\ diff = 0
  /\ aaCount = 0
  /\ result = <<>>
  /\ err = NoError
  /\ compared = 0

\* well-formed calls: two images of one shape over the palette, the second
\* differing from the first in at most MaxChanged pixels
InitValid ==
  /\ par = Idle /\ cli = Idle /\ backend = Idle
  /\ \E shape \in Shapes :
       LET n == shape[1] * shape[2]
       IN  \E p1 \in [1..n -> Colours] :
             \E p2 \in [1..n -> Colours] :
               /\ Cardinality({k \in 1..n : p1[k] # p2[k]}) <= MaxChanged
               /\ img1 = Image(p1, shape)
               /\ img2 = Image(p2, shape)
               /\ \E o \in Options :
                    /\ options = o
                    /\ output = Blank(IF o.output = "none" THEN 0 ELSE 4 * n)
  /\ Start

\* what callers pass when they get it wrong: zero-filled buffers of any of
\* RawLengths, any of RawShapes for each image, plain arrays for buffers,
\* views at any of RawOffsets in their ArrayBuffer
RawShapes == {<<1, 1>>, <<2, 1>>, <<1, 2>>}

RawLengths == {4, 8, 9}

RawOffsets == {0, 1, 4}

RawOutputs == {<<"none", 0>>, <<"bytes", 4>>, <<"bytes", 8>>, <<"array", 4>>, <<"array", 8>>}

RawImage(n, isBytes, offset, shape) ==
  [data |-> [k \in 1..n |-> 0], isPixelData |-> isBytes, byteOffset |-> offset,
   width |-> shape[1], height |-> shape[2]]

InitRaw ==
  /\ par = Idle /\ cli = Idle /\ backend = Idle
  /\ \E s1 \in RawShapes, s2 \in RawShapes, n1 \in RawLengths, n2 \in RawLengths :
       \E t1 \in BOOLEAN, t2 \in BOOLEAN, b1 \in RawOffsets, b2 \in RawOffsets :
         /\ img1 = RawImage(n1, t1, b1, s1)
         /\ img2 = RawImage(n2, t2, b2, s2)
  /\ \E o \in RawOutputs :
       /\ options = [DefaultOptions EXCEPT !.output = o[1]]
       /\ output = Blank(o[2])
  /\ Start

Init == InitValid \/ InitRaw

(***************************************************************************)
(* The steps of a call.                                                    *)
(***************************************************************************)
len == img1.width * img1.height

\* line 23 moved below the first word comparison of line 35
ValidateLate ==
  /\ pc = "validate"
  /\ LET e == validateInput(img1, img2, options.output, output.bytes)
     IN  /\ err' = e
         /\ pc' = IF e = NoError THEN "identical" ELSE "error"
  /\ compared' = 1
  /\ UNCHANGED <<img1, img2, options, output, i, diff, aaCount, result>>
  /\ UNCHANGED aux

\* line 23
Validate ==
  /\ pc = "validate"
  /\ LET e == validateInput(img1, img2, options.output, output.bytes)
     IN  /\ err' = e
         /\ pc' = IF e = NoError THEN "identical" ELSE "error"
  /\ UNCHANGED <<img1, img2, options, output, i, diff, aaCount, result, compared>>
  /\ UNCHANGED aux

\* lines 28-39 and the initialisation of lines 54-55
CheckIdentical ==
  /\ pc = "identical"
  /\ IF WordViewsThrow(img1, img2)
     THEN /\ err' = Error("RangeError", <<>>, <<>>)
          /\ pc' = "error"
          /\ UNCHANGED compared
     ELSE LET m == FirstMismatch(img1.data, img2.data, len, 0)
          IN  /\ compared' = IF m = len THEN len ELSE m + 1
              /\ pc' = IF m = len THEN "fast" ELSE "scan"
              /\ UNCHANGED err
  /\ UNCHANGED <<img1, img2, options, output, i, diff, aaCount, result>>
  /\ UNCHANGED aux

\* lines 40-46
FastPath ==
  /\ pc = "fast"
  /\ output' = FastPathOutput(img1.data, options, output, len)
  /\ result' = <<buildResult(0, 0, len, TRUE)>>
  /\ pc' = "done"
  /\ UNCHANGED <<img1, img2, options, i, diff, aaCount, err, compared>>
  /\ UNCHANGED aux

\* lines 58-94, one pixel
ScanPixel ==
  /\ pc = "scan"
  /\ i < len
  /\ LET st == ScanStep(img1.data, img2.data, img1.width, img1.height, options,
                        [diff |-> diff, aaCount |-> aaCount, output |-> output], i)
     IN  /\ diff' = st.diff
         /\ aaCount' = st.aaCount
         /\ output' = st.output
  /\ i' = i + 1
  /\ compared' = compared + 1
  /\ UNCHANGED <<img1, img2, options, pc, result, err>>
  /\ UNCHANGED aux

\* line 96 with the flag derived from the counters
ReturnByCounts ==
  /\ pc = "scan"
  /\ i >= len
  /\ result' = <<buildResult(diff, aaCount, len, diff = 0 /\ aaCount = 0)>>
  /\ pc' = "done"
  /\ UNCHANGED <<img1, img2, options, output, i, diff, aaCount, err, compared>>
  /\ UNCHANGED aux

\* line 96
Return ==
  /\ pc = "scan"
  /\ i >= len
  /\ result' = <<buildResult(diff, aaCount, len, FALSE)>>
  /\ pc' = "done"
  /\ UNCHANGED <<img1, img2, options, output, i, diff, aaCount, err, compared>>
  /\ UNCHANGED aux

Next == Validate \/ CheckIdentical \/ FastPath \/ ScanPixel \/ Return

Spec == Init /\ [][Next]_vars

(***************************************************************************)
(* Properties of a call.                                                   *)
(***************************************************************************)
Done == pc = "done"

Failed == pc = "error"

\* the error kinds raised by validateInput
ValidationKinds ==
  {"ImageData", "OutputData", "ImageDimensions", "ImageSizes", "ImageDataSize", "OutputSize"}

ValidationFailed == Failed /\ err[1].kind \in ValidationKinds

\* every condition of the validator holds of the call
PassesValidation ==
  /\ img1.isPixelData /\ img2.isPixelData
  /\ options.output \in {"none", "bytes"}
  /\ img1.width = img2.width /\ img1.height = img2.height
  /\ Len(img1.data) = Len(img2.data)
  /\ Len(img1.data) = img1.width * img1.height * 4
  /\ options.output = "bytes" => Len(output.bytes) = img1.width * img1.height * 4

\* the result of a call on the same images under the options o, without an
\* output buffer
ResultWith(o) == Pixelmatch(img1, img2, [o EXCEPT !.output = "none"], Blank(0)).result[1]

\* C1: a valid image compared with itself, under any options, returns
\* diffCount = 0, aaCount = 0, identical = true and diffPercentage = 0.
C1_Identity ==
  (pc \in {"done", "error"} /\ PassesValidation /\ img1 = img2)
    => /\ Done
       /\ result[1].diffCount = 0
       /\ result[1].aaCount = 0
       /\ result[1].identical
       /\ result[1].diffPercentage[1] = 0

\* C2: diffCount without anti-aliasing detection is diffCount + aaCount with
\* it, and aaCount without it is 0, for the same images and threshold.
C2_Complementarity ==
  Done =>
    LET other == ResultWith([options EXCEPT !.detectAntiAliasing = ~@])
        on == IF options.detectAntiAliasing THEN result[1] ELSE other
        off == IF options.detectAntiAliasing THEN other ELSE result[1]
    IN  /\ off.diffCount = on.diffCount + on.aaCount
        /\ off.aaCount = 0

C2_Witness ==
  /\ Done
  /\ options.detectAntiAliasing
  /\ result[1].aaCount > 0
  /\ result[1].diffCount > 0

\* t1 <= t2 for thresholds <<n, d>>
ThresholdLeq(t1, t2) == t1[1] * t2[2] <= t2[1] * t1[2]

\* the thresholds above t
Above(t) == {t2 \in Thresholds : ThresholdLeq(t, t2) /\ t2 # t}

\* the least threshold above t
NextThreshold(t) == CHOOSE t2 \in Above(t) : \A t3 \in Above(t) : ThresholdLeq(t2, t3)

\* C3: for the same images and detectAntiAliasing, diffCount + aaCount at a
\* threshold t2 is at most diffCount + aaCount at any threshold t1 <= t2:
\* every threshold against the next one up.
C3_Monotone ==
  (Done /\ Above(options.threshold) # {}) =>
    LET above == ResultWith([options EXCEPT !.threshold = NextThreshold(@)])
    IN  above.diffCount + above.aaCount <= result[1].diffCount + result[1].aaCount

C3_Witness ==
  /\ Done
  /\ options.threshold = <<1, 10>>
  /\ result[1].diffCount + result[1].aaCount = 2
  /\ LET above == ResultWith([options EXCEPT !.threshold = NextThreshold(@)])
     IN  above.diffCount + above.aaCount = 1

\* C4: every result has totalPixels = width * height and diffPercentage =
\* diffCount / totalPixels, or 0 when totalPixels = 0, on both paths.
C4_Totals ==
  Done =>
    /\ result[1].totalPixels = img1.width * img1.height
    /\ IF result[1].totalPixels = 0
       THEN result[1].diffPercentage = <<0, 1>>
       ELSE /\ result[1].diffPercentage[2] > 0
            /\ result[1].diffPercentage[1] * result[1].totalPixels
                 = result[1].diffCount * result[1].diffPercentage[2]

C4_Witness ==
  /\ Done
  /\ img1.width * img1.height = 0
  /\ img1.height = 2
  /\ result[1].diffPercentage[1] = 0

\* C5: identical is true exactly when the two data buffers are equal; a scan
\* of differing buffers that counts nothing still gives identical = false.
C5_Identical == Done => (result[1].identical <=> img1.data = img2.data)

C5_Witness ==
  /\ Done
  /\ img1.data # img2.data
  /\ result[1].diffCount = 0
  /\ result[1].aaCount = 0
  /\ ~result[1].identical

\* C6: when a validation error is raised, no pixel has been compared, no
\* byte of the output has been written and no result is returned.
C6_NoWorkBeforeFailure ==
  ValidationFailed =>
    /\ compared = 0
    /\ output = Blank(Len(output.bytes))
    /\ result = <<>>

C6_Witness == ValidationFailed /\ err[1].kind = "OutputSize" /\ Len(output.bytes) = 8

\* the first element of a sequence of <<failed, kind>> pairs that failed
FirstFailing(checks) ==
  LET failing == {k \in 1..Len(checks) : checks[k][1]}
  IN  IF failing = {} THEN "none"
      ELSE checks[CHOOSE k \in failing : \A j \in failing : k <= j][2]

\* the order of the claim: the output length right after the buffer types
ClaimedOrder ==
  FirstFailing(<< <<~img1.isPixelData \/ ~img2.isPixelData, "ImageData">>,
                  <<options.output = "array", "OutputData">>,
                  <<options.output # "none" /\ Len(output.bytes) # Len(img1.data), "OutputSize">>,
                  <<img1.width # img2.width \/ img1.height # img2.height, "ImageDimensions">>,
                  <<Len(img1.data) # Len(img2.data), "ImageSizes">>,
                  <<Len(img1.data) # img1.width * img1.height * 4, "ImageDataSize">> >>)

\* the order with the output length last, against width * height * 4
OutputLastOrder ==
  FirstFailing(<< <<~img1.isPixelData \/ ~img2.isPixelData, "ImageData">>,
                  <<options.output = "array", "OutputData">>,
                  <<img1.width # img2.width \/ img1.height # img2.height, "ImageDimensions">>,
                  <<Len(img1.data) # Len(img2.data), "ImageSizes">>,
                  <<Len(img1.data) # img1.width * img1.height * 4, "ImageDataSize">>,
                  <<options.output # "none" /\ Len(output.bytes) # img1.width * img1.height * 4,
                    "OutputSize">> >>)

\* the kind of validation error of the call, "none" without one
RaisedKind == IF ValidationFailed THEN err[1].kind ELSE "none"

\* C7 as claimed: the checks run in the order buffer types, output length,
\* dimensions, data lengths, data length against width * height * 4, and
\* the error is that of the first failing check.
C7_ClaimedOrder == pc # "validate" => RaisedKind = ClaimedOrder

\* C7: the checks run in the order data buffer types, output buffer type,
\* dimensions, data lengths, data length against width * height * 4, output
\* length, and the error is that of the first failing check.
C7_OutputLastOrder == pc # "validate" => RaisedKind = OutputLastOrder

C7_Witness ==
  /\ ValidationFailed
  /\ options.output = "bytes"
  /\ Len(output.bytes) # img1.width * img1.height * 4
  /\ Len(output.bytes) # Len(img1.data)
  /\ img1.width # img2.width
  /\ err[1].kind = "ImageDimensions"

DimensionsDiffer == img1.width # img2.width \/ img1.height # img2.height

DimensionMismatchRaised ==
  /\ Failed
  /\ err[1] = [kind |-> "ImageDimensions",
               first |-> <<img1.width, img1.height>>,
               second |-> <<img2.width, img2.height>>]

\* C8 as claimed: with byte-array data buffers and differing width or height
\* the call fails with the dimension error carrying both size pairs.
C8_DimensionError ==
  (pc # "validate" /\ img1.isPixelData /\ img2.isPixelData /\ DimensionsDiffer)
    => DimensionMismatchRaised

\* C8: with byte-array data buffers, an output that is absent or a byte
\* array, and differing width or height, the call fails with the dimension
\* error carrying both size pairs, also when the data lengths are equal.
C8_DimensionErrorByteOutput ==
  (/\ pc # "validate"
   /\ img1.isPixelData /\ img2.isPixelData
   /\ options.output # "array"
   /\ DimensionsDiffer)
    => DimensionMismatchRaised

C8_Witness ==
  /\ DimensionMismatchRaised
  /\ Len(img1.data) = Len(img2.data)
  /\ Len(img1.data) = img1.width * img1.height * 4
  /\ Len(img2.data) = img2.width * img2.height * 4

\* C9: a call that satisfies every condition of the validator raises no
\* error; it ends with a complete result after the fast path or the scan.
C9_Totality ==
  PassesValidation =>
    /\ ~Failed
    /\ Done => /\ Len(result) = 1
               /\ compared >= img1.width * img1.height

\* the options with the defaults of everything but threshold and
\* detectAntiAliasing, and no output
Canonical(o) ==
  [DefaultOptions EXCEPT !.threshold = o.threshold,
                         !.detectAntiAliasing = o.detectAntiAliasing]

\* C10: the result record is that of the call without an output and with
\* the default diffMask, alpha and colours: it depends only on the images,
\* threshold and detectAntiAliasing.
C10_ResultIndependent ==
  Done => result[1] = Pixelmatch(img1, img2, Canonical(options), Blank(0)).result[1]

C10_Witness ==
  /\ Done
  /\ options.output = "bytes"
  /\ options.diffMask
  /\ options.diffColorAlt # <<>>
  /\ result[1].diffCount > 0
  /\ result[1].aaCount > 0
  /\ output.writes # <<>>

\* the pixels of the images, by index
Pixels == 0..(len - 1)

\* the four output bytes of pixel p
PixelBytes(p) == SubSeq(output.bytes, 4 * p + 1, 4 * p + 4)

\* the four bytes a drawing of colour c leaves
Drawn(c) == <<c[1], c[2], c[3], 255>>

\* the value line 64 computes for pixel p
DeltaAt(p) ==
  IF Word(img1.data, p) = Word(img2.data, p) THEN SZero
  ELSE colorDelta(img1.data, img2.data, 4 * p, 4 * p, FALSE)

\* the test of line 67 for pixel p
Exceeds(p) == AboveThreshold(DeltaAt(p), MaxDelta(options.threshold))

\* pixel p is one the scan counts in diffCount
CountedDiff(p) ==
  /\ Exceeds(p)
  /\ ~IsAA(img1.data, img2.data, p % img1.width, p \div img1.width,
           img1.width, img1.height, options)

\* the call went through the scan of lines 58-94 and returned
Scanned == Done /\ ~result[1].identical

\* C12: when the images are word-for-word equal and an output buffer is
\* supplied, diffMask false leaves every pixel of output the gray blend of
\* image1's pixel with alpha 255, each written once, and diffMask true leaves
\* the buffer as the caller passed it, with no write at all.
C12_FastPathOutput ==
  (Done /\ result[1].identical /\ options.output = "bytes")
    => IF options.diffMask
       THEN output = Blank(4 * len)
       ELSE /\ Len(output.writes) = len
            /\ \A p \in Pixels :
                 LET val == GrayValue(img1.data, 4 * p, options.alpha)
                 IN  PixelBytes(p) = <<val, val, val, 255>>

C12_Witness ==
  /\ Done
  /\ result[1].identical
  /\ options.output = "bytes"
  /\ ~options.diffMask
  /\ len = 4
  /\ \E p \in Pixels : PixelBytes(p)[1] < 255
  /\ \E p \in Pixels : PixelBytes(p)[1] = 255

\* C13: with an output buffer and diffMask true, after the scan the pixels
\* written are exactly those counted in diffCount, each once, with diffColor
\* or diffColorAlt and alpha 255; every other pixel (anti-aliased or within
\* the threshold) keeps the zero bytes the buffer held before the call.
C13_MaskMode ==
  (Scanned /\ options.output = "bytes" /\ options.diffMask)
    => /\ Len(output.writes) = result[1].diffCount
       /\ \A p \in Pixels :
            IF CountedDiff(p)
            THEN /\ PixelBytes(p) \in {Drawn(options.diffColor), Drawn(AltColor(options))}
                 /\ \E k \in 1..Len(output.writes) : output.writes[k] = 4 * p
            ELSE /\ PixelBytes(p) = <<0, 0, 0, 0>>
                 /\ \A k \in 1..Len(output.writes) : output.writes[k] # 4 * p

C13_Witness ==
  /\ Scanned
  /\ options.output = "bytes"
  /\ options.diffMask
  /\ result[1].diffCount = 1
  /\ result[1].aaCount = 1
  /\ len = 4
  /\ \E p \in Pixels : ~Exceeds(p)

\* the image2 pixel is darker than the image1 pixel: y of line 209 is positive
Darker(p) == Luma(ChannelDiffs(img1.data, img2.data, 4 * p, 4 * p)).s > 0

\* C14: a pixel counted as a difference is drawn with diffColorAlt when
\* the image2 pixel is darker than the image1 pixel and a diffColorAlt is
\* given, and with diffColor otherwise.
C14_DiffColour ==
  (Scanned /\ options.output = "bytes")
    => \A p \in Pixels :
         CountedDiff(p) =>
           PixelBytes(p) = Drawn(IF Darker(p) /\ options.diffColorAlt # <<>>
                                 THEN options.diffColorAlt
                                 ELSE options.diffColor)

C14_Witness ==
  /\ Scanned
  /\ options.output = "bytes"
  /\ options.diffColorAlt # <<>>
  /\ options.diffColorAlt # options.diffColor
  /\ \E p \in Pixels, q \in Pixels :
       /\ CountedDiff(p) /\ Darker(p) /\ PixelBytes(p) = Drawn(options.diffColorAlt)
       /\ CountedDiff(q) /\ ~Darker(q) /\ PixelBytes(q) = Drawn(options.diffColor)

\* a valid call on two images of one pixel
OnePixel == PassesValidation /\ img1.width = 1 /\ img1.height = 1

\* Scenario A: opaque black against opaque white at threshold 0.1
ScenarioA ==
  /\ OnePixel
  /\ Word(img1.data, 0) = <<0, 0, 0, 255>>
  /\ Word(img2.data, 0) = <<255, 255, 255, 255>>
  /\ options.threshold = <<1, 10>>

\* C15: for 1x1 images the classifier is false for both images, aaCount is
\* 0 and diffCount is 1 exactly when the delta exceeds maxDelta; black against
\* white at threshold 0.1 gives diffCount 1, aaCount 0, identical false and
\* diffPercentage 1.
C15_OnePixel ==
  (Done /\ OnePixel)
    => /\ ~antialiased(img1.data, 0, 0, 1, 1, img1.data, img2.data)
       /\ ~antialiased(img2.data, 0, 0, 1, 1, img2.data, img1.data)
       /\ result[1].aaCount = 0
       /\ result[1].diffCount = (IF Exceeds(0) THEN 1 ELSE 0)
       /\ ScenarioA => /\ result[1].diffCount = 1
                       /\ ~result[1].identical
                       /\ result[1].diffPercentage = <<1, 1>>

C15_Witness == Done /\ ScenarioA /\ options.detectAntiAliasing /\ result[1].diffCount = 1

\* Scenario C: 2x2, image1 all opaque black, image2 the same but for an
\* opaque white top-left pixel, at threshold 0.1
ScenarioC ==
  /\ PassesValidation
  /\ img1.width = 2 /\ img1.height = 2
  /\ \A p \in 0..3 : Word(img1.data, p) = <<0, 0, 0, 255>>
  /\ Word(img2.data, 0) = <<255, 255, 255, 255>>
  /\ \A p \in 1..3 : Word(img2.data, p) = <<0, 0, 0, 255>>
  /\ options.threshold = <<1, 10>>

\* pass 1 of the classifier (lines 137-150) for the top-left pixel of a 2x2 image
TopLeftPass1(img) ==
  Pass1(img, 0, Neighbours(0, 0, 2, 2), 2,
        [flat |-> FALSE, zeroes |-> OnBorder(0, 0, 2, 2), min |-> SZero, max |-> SZero])

\* C16: in scenario C the classifier is false on image1 through the
\* flat-region bailout and false on image2 because min stays 0 while max
\* is positive; the result is diffCount 1, aaCount 0, totalPixels 4 and
\* diffPercentage 1/4.
C16_ScenarioC ==
  (Done /\ ScenarioC)
    => /\ TopLeftPass1(img1.data).flat
       /\ TopLeftPass1(img1.data).zeroes > 2
       /\ ~TopLeftPass1(img2.data).flat
       /\ TopLeftPass1(img2.data).min = SZero
       /\ ~antialiased(img1.data, 0, 0, 2, 2, img1.data, img2.data)
       /\ ~antialiased(img2.data, 0, 0, 2, 2, img2.data, img1.data)
       /\ \A p \in Pixels : Exceeds(p) <=> p = 0
       /\ result[1].diffCount = 1
       /\ result[1].aaCount = 0
       /\ result[1].totalPixels = 4
       /\ result[1].diffPercentage = <<1, 4>>

C16_Witness == Done /\ ScenarioC /\ options.detectAntiAliasing /\ result[1].diffCount = 1

(***************************************************************************)
(* The mapbox-compatible wrapper (compat.ts 11-30).  Legacy options carry  *)
(* includeAA in place of detectAntiAliasing; an option that may be left    *)
(* out is a sequence of length <= 1.  The output argument is "null",       *)
(* "none" (undefined), "bytes" or "array".                                 *)
(***************************************************************************)
\* the legacy options that go with the options o, with the given includeAA
Legacy(o, includeAA) ==
  [threshold |-> o.threshold, alpha |-> o.alpha, aaColor |-> o.aaColor,
   diffColor |-> o.diffColor, diffColorAlt |-> o.diffColorAlt,
   diffMask |-> o.diffMask, includeAA |-> includeAA]

\* lines 19-27 with includeAA passed on as detectAntiAliasing
compatOptionsPlain(legacy, outKind) ==
  [threshold |-> legacy.threshold, alpha |-> legacy.alpha, aaColor |-> legacy.aaColor,
   diffColor |-> legacy.diffColor, diffColorAlt |-> legacy.diffColorAlt,
   diffMask |-> legacy.diffMask,
   detectAntiAliasing |-> legacy.includeAA,
   output |-> IF outKind = "null" THEN "none" ELSE outKind]

\* lines 19-27: the options handed to the implementation
compatOptions(legacy, outKind) ==
  [threshold |-> legacy.threshold, alpha |-> legacy.alpha, aaColor |-> legacy.aaColor,
   diffColor |-> legacy.diffColor, diffColorAlt |-> legacy.diffColorAlt,
   diffMask |-> legacy.diffMask,
   detectAntiAliasing |-> IF legacy.includeAA = <<>> THEN <<>>
                          ELSE <<~legacy.includeAA[1]>>,
   output |-> IF outKind = "null" THEN "none" ELSE outKind]

\* pixelmatch.ts line 17: detectAntiAliasing = true when it is undefined
WithDefaults(o) ==
  [o EXCEPT !.detectAntiAliasing = IF @ = <<>> THEN TRUE ELSE @[1]]

\* compat.ts 11-30 over the JavaScript engine: [err, value], value the number returned
compat(data1, data2, outKind, out, width, height, legacy) ==
  LET r == Pixelmatch([data1 EXCEPT !.width = width, !.height = height],
                      [data2 EXCEPT !.width = width, !.height = height],
                      WithDefaults(compatOptions(legacy, outKind)), out)
  IN  [err |-> r.err,
       value |-> IF r.err = NoError THEN <<r.result[1].diffCount>> ELSE <<>>]

\* the wrapper called on the images of the state with the given output
\* argument and includeAA
CompatCount(outKind, includeAA) ==
  compat(img1, img2, outKind, Blank(Len(output.bytes)), img1.width, img1.height,
         Legacy(options, includeAA)).value

\* C17: the wrapper returns the diffCount of the new API for the same
\* images with detectAntiAliasing = NOT includeAA; with includeAA left out
\* detection is on; a null output is passed on as no output buffer.
C17_LegacyAdapter ==
  Done =>
    /\ CompatCount(options.output, <<~options.detectAntiAliasing>>)
         = <<result[1].diffCount>>
    /\ options.detectAntiAliasing =>
         CompatCount(options.output, <<>>) = <<result[1].diffCount>>
    /\ options.output = "none" =>
         CompatCount("null", <<~options.detectAntiAliasing>>) = <<result[1].diffCount>>

C17_Witness ==
  /\ Done
  /\ options.detectAntiAliasing
  /\ options.output = "none"
  /\ result[1].aaCount > 0
  /\ result[1].diffCount > 0
  /\ CompatCount("null", <<>>) = <<result[1].diffCount>>
  /\ CompatCount("null", <<TRUE>>) = <<result[1].diffCount + result[1].aaCount>>

\* the positions of a write log are pairwise different
NoRepeats(w) == \A j \in 1..Len(w) : \A k \in 1..Len(w) : w[j] = w[k] => j = k

\* the indices of the output bytes a step changes
Changed == {k \in 1..Len(output.bytes) : output.bytes[k] # output'.bytes[k]}

\* C20: no step of a call changes the data of image1 or image2; handling
\* pixel i changes output bytes among 4i..4i+3 only and draws it at most
\* once; every changed byte belongs to a pixel drawn, and no pixel is
\* drawn twice.
C20_WriteLocality ==
  [][/\ img1' = img1
     /\ img2' = img2
     /\ Len(output'.bytes) = Len(output.bytes)
     /\ (pc = "scan" /\ i < len) =>
          /\ Changed \subseteq (4 * i + 1)..(4 * i + 4)
          /\ output'.writes \in {output.writes, Append(output.writes, 4 * i)}
     /\ \A k \in Changed :
          \E j \in 1..Len(output'.writes) : output'.writes[j] = 4 * ((k - 1) \div 4)
     /\ NoRepeats(output'.writes)]_vars

C20_Witness ==
  /\ pc = "scan"
  /\ i = 2
  /\ len = 4
  /\ output.writes = <<0, 4>>
  /\ PixelBytes(0) # PixelBytes(1)

(***************************************************************************)
(* The scan of lines 58-94 run in any order by several workers: each       *)
(* pending pixel is handled once, by any worker, with the loop body of the *)
(* code; a worker adds to its own counters; the counters are summed when   *)
(* no pixel is pending.                                                    *)
(***************************************************************************)
NumWorkers == 2

Workers == 1..NumWorkers

\* the calls of the partitioned scan: drawing with and without a mask, and no output
AnyOrderOptions ==
  {MakeOptions(<<1, 10>>, TRUE, mode) :
     mode \in {[output |-> "bytes", diffMask |-> FALSE, style |-> OtherStyle],
               [output |-> "bytes", diffMask |-> TRUE, style |-> OtherStyle],
               [output |-> "none", diffMask |-> FALSE, style |-> DefaultStyle]}}

\* the calls of the partitioned scan: image1 in black and white, image2
\* differing from it in at most MaxChanged pixels of any colour
InitAnyOrder ==
  /\ par = Idle /\ cli = Idle /\ backend = Idle
  /\ \E shape \in {<<1, 1>>, <<2, 1>>, <<2, 2>>} :
       LET n == shape[1] * shape[2]
       IN  \E p1 \in [1..n -> {Palette[1], Palette[2]}] :
             \E p2 \in [1..n -> Colours] :
               /\ Cardinality({k \in 1..n : p1[k] # p2[k]}) <= MaxChanged
               /\ img1 = Image(p1, shape)
               /\ img2 = Image(p2, shape)
               /\ \E o \in AnyOrderOptions :
                    /\ options = o
                    /\ output = Blank(IF o.output = "none" THEN 0 ELSE 4 * n)
  /\ Start

\* the pixels are handed out and every worker starts from zero counters;
\* inOrder records whether the pixels have been taken in row-major order so far
StartWorkers ==
  /\ pc = "scan"
  /\ par = Idle
  /\ par' = [pc |-> "work", pending |-> Pixels, inOrder |-> TRUE,
             partial |-> [w \in Workers |-> [diff |-> 0, aaCount |-> 0]]]
  /\ pc' = "parallel"
  /\ UNCHANGED <<img1, img2, options, output, i, diff, aaCount, result, err, compared>>
  /\ UNCHANGED <<cli, backend>>

RECURSIVE Ascending(_)
\* the members of a set of numbers in increasing order
Ascending(S) ==
  IF S = {} THEN <<>>
  ELSE LET m == CHOOSE x \in S : \A y \in S : x <= y
       IN  <<m>> \o Ascending(S \ {m})

\* the log of drawings as a set: the order of drawing is the scheduler's
Unordered(out) ==
  [bytes |-> out.bytes,
   writes |-> Ascending({out.writes[k] : k \in 1..Len(out.writes)})]

\* some pending pixel is handled with the body of the loops, on counters
\* that start from zero, and some worker adds them to its own
ScanAny ==
  /\ pc = "parallel"
  /\ \E j \in par.pending :
       LET st == ScanStep(img1.data, img2.data, img1.width, img1.height, options,
                          [diff |-> 0, aaCount |-> 0, output |-> output], j)
       IN  /\ output' = Unordered(st.output)
           /\ \E w \in Workers :
                par' = [par EXCEPT !.pending = @ \ {j},
                                   !.inOrder = @ /\ (\A k \in par.pending : j <= k),
                                   !.partial[w] = [diff |-> @.diff + st.diff,
                                                   aaCount |-> @.aaCount + st.aaCount]]
  /\ compared' = compared + 1
  /\ UNCHANGED <<img1, img2, options, pc, i, diff, aaCount, result, err>>
  /\ UNCHANGED <<cli, backend>>

RECURSIVE SumOver(_, _, _)
\* the sum of field f of the workers' counters, workers 1..n
SumOver(partial, f, n) == IF n = 0 THEN 0 ELSE partial[n][f] + SumOver(partial, f, n - 1)

\* the counters are merged by addition and the result is built (line 96)
Reduce ==
  /\ pc = "parallel"
  /\ par.pending = {}
  /\ diff' = SumOver(par.partial, "diff", NumWorkers)
  /\ aaCount' = SumOver(par.partial, "aaCount", NumWorkers)
  /\ result' = <<buildResult(diff', aaCount', len, FALSE)>>
  /\ pc' = "done"
  /\ UNCHANGED <<img1, img2, options, output, i, err, compared, aux>>

NextAnyOrder == Validate \/ CheckIdentical \/ FastPath \/ StartWorkers \/ ScanAny \/ Reduce

SpecAnyOrder == InitAnyOrder /\ [][NextAnyOrder]_vars

\* the call of the state, made by the code on a fresh buffer of the same size
Sequential == Pixelmatch(img1, img2, options, Blank(Len(output.bytes)))

\* C11: whatever the order in which the pixels are handled and whichever
\* worker handles each, the merged result and every byte of the output
\* buffer are those of the sequential row-major scan of the code, so any two
\* runs on the same inputs agree.
C11_AnyOrder ==
  Done => LET seq == Sequential
          IN  /\ result = seq.result
              /\ \A k \in 1..Len(output.bytes) : output.bytes[k] = seq.output.bytes[k]

C11_Witness ==
  /\ Done
  /\ par # Idle
  /\ ~par.inOrder
  /\ len = 4
  /\ options.output = "bytes"
  /\ par.partial[1].diff > 0
  /\ par.partial[2].aaCount > 0

(***************************************************************************)
(* The command-line script (types.ts 57-95).  cli.args are the arguments   *)
(* after the script's path: n of them, then diffPath, threshold (the value *)
(* of +threshold) and detectAA where given.  img1 and img2 are the two     *)
(* files as the PNG decoder returns them.  cli.exit is the exit code, a    *)
(* sequence of length <= 1; cli.written tells whether the diff file has    *)
(* been written.                                                           *)
(***************************************************************************)
CliArgs ==
  {[n |-> n, diffPath |-> d, threshold |-> t, detectAA |-> a] :
     n \in 0..5, d \in {"", "diff.png"}, t \in {<<1, 10>>, <<1, 1>>},
     a \in {"false", "true"}}

\* the arguments the script can tell apart: those beyond n are undefined
GivenArgs ==
  {v \in CliArgs : /\ v.n < 3 => v.diffPath = ""
                   /\ v.n < 4 => v.threshold = <<1, 10>>
                   /\ v.n < 5 => v.detectAA = "true"}

\* decoded files: of one shape and differing in at most MaxChanged pixels,
\* or blank images of two shapes
InitCli ==
  /\ par = Idle /\ backend = Idle
  /\ \E v \in GivenArgs : cli = [pc |-> "start", args |-> v, exit |-> <<>>, written |-> FALSE]
  /\ \/ \E shape \in {<<1, 1>>, <<2, 1>>, <<2, 2>>} :
          LET n == shape[1] * shape[2]
          IN  \E p1 \in [1..n -> {Palette[1], Palette[2]}] :
                \E p2 \in [1..n -> Colours] :
                  /\ Cardinality({k \in 1..n : p1[k] # p2[k]}) <= MaxChanged
                  /\ img1 = Image(p1, shape)
                  /\ img2 = Image(p2, shape)
     \/ \E s1 \in {<<1, 1>>, <<2, 1>>, <<1, 2>>}, s2 \in {<<1, 1>>, <<2, 1>>, <<1, 2>>} :
          /\ s1 # s2
          /\ img1 = RawImage(4 * s1[1] * s1[2], TRUE, 0, s1)
          /\ img2 = RawImage(4 * s2[1] * s2[2], TRUE, 0, s2)
  /\ options = DefaultOptions
  /\ output = Blank(0)
  /\ pc = "idle"
  /\ i = 0
  /\ diff = 0
  /\ aaCount = 0
  /\ result = <<>>
  /\ err = NoError
  /\ compared = 0

\* lines 57-60
CliUsage ==
  /\ cli.pc = "start"
  /\ cli.args.n + 2 < 4
  /\ cli' = [cli EXCEPT !.pc = "exited", !.exit = <<64>>]
  /\ UNCHANGED <<img1, img2, options, output, pc, i, diff, aaCount, result, err, compared>>
  /\ UNCHANGED <<par, backend>>

\* lines 62-70: the options from the arguments, the two files read
CliRead ==
  /\ cli.pc = "start"
  /\ cli.args.n + 2 >= 4
  /\ options' = [options EXCEPT
                   !.threshold = IF cli.args.n >= 4 THEN cli.args.threshold ELSE @,
                   !.detectAntiAliasing = IF cli.args.n >= 5
                                          THEN cli.args.detectAA # "false" ELSE @]
  /\ cli' = [cli EXCEPT !.pc = "read"]
  /\ UNCHANGED <<img1, img2, output, pc, i, diff, aaCount, result, err, compared>>
  /\ UNCHANGED <<par, backend>>

\* lines 72-75
CliDims ==
  /\ cli.pc = "read"
  /\ img2.width # img1.width \/ img2.height # img1.height
  /\ cli' = [cli EXCEPT !.pc = "exited", !.exit = <<65>>]
  /\ UNCHANGED <<img1, img2, options, output, pc, i, diff, aaCount, result, err, compared>>
  /\ UNCHANGED <<par, backend>>

\* lines 77-83: the diff image where a diffPath is given, and the call
CliMatch ==
  /\ cli.pc = "read"
  /\ ~(img2.width # img1.width \/ img2.height # img1.height)
  /\ IF cli.args.diffPath # ""
     THEN /\ options' = [options EXCEPT !.output = "bytes"]
          /\ output' = Blank(4 * img1.width * img1.height)
     ELSE UNCHANGED <<options, output>>
  /\ pc' = "validate"
  /\ cli' = [cli EXCEPT !.pc = "matching"]
  /\ UNCHANGED <<img1, img2, i, diff, aaCount, result, err, compared>>
  /\ UNCHANGED <<par, backend>>

\* lines 92-95 with the code taken from the identical flag
CliExitByIdentical ==
  /\ cli.pc = "matching"
  /\ pc = "done"
  /\ cli' = [cli EXCEPT !.pc = "exited",
                        !.written = cli.args.diffPath # "",
                        !.exit = <<IF result[1].identical THEN 0 ELSE 66>>]
  /\ UNCHANGED <<img1, img2, options, output, pc, i, diff, aaCount, result, err, compared>>
  /\ UNCHANGED <<par, backend>>

\* lines 92-95: the diff file where a diffPath is given, and the exit code
CliExit ==
  /\ cli.pc = "matching"
  /\ pc = "done"
  /\ cli' = [cli EXCEPT !.pc = "exited",
                        !.written = cli.args.diffPath # "",
                        !.exit = <<IF result[1].diffCount # 0 THEN 66 ELSE 0>>]
  /\ UNCHANGED <<img1, img2, options, output, pc, i, diff, aaCount, result, err, compared>>
  /\ UNCHANGED <<par, backend>>

NextCli ==
  \/ CliUsage \/ CliRead \/ CliDims \/ CliMatch
  \/ Validate \/ CheckIdentical \/ FastPath \/ ScanPixel \/ Return
  \/ CliExit

SpecCli == InitCli /\ [][NextCli]_vars

Exited == cli.pc = "exited"

\* the script ran without its two image paths
TooFewArgs == cli.args.n < 2

\* the script stopped before any comparison and without writing a diff file
StoppedEarly == pc = "idle" /\ compared = 0 /\ result = <<>> /\ ~cli.written

Throws == [kind |-> "throws"]

Value(type, null, match, count) ==
  [kind |-> "value", type |-> type, null |-> null, pixelmatch |-> match,
   pixelmatchCount |-> count]

\* a binding with both functions, one without pixelmatchCount, one whose
\* pixelmatch is not a function, null, and a string
Requires ==
  {Throws,
   Value("object", FALSE, "function", "function"),
   Value("object", FALSE, "function", "absent"),
   Value("object", FALSE, "object", "function"),
   Value("object", TRUE, "absent", "absent"),
   Value("string", FALSE, "absent", "absent")}

\* lines 47-53: the keys of triples
triples ==
  {<<"darwin", "arm64">>, <<"darwin", "x64">>, <<"linux", "x64">>, <<"linux", "arm64">>,
   <<"win32", "x64">>}

\* process.platform and process.arch
Hosts ==
  {<<"darwin", "arm64">>, <<"linux", "x64">>, <<"win32", "x64">>, <<"linux", "riscv64">>,
   <<"freebsd", "x64">>}

\* lines 55-64 without the test of pixelmatchCount
isNativeBindingLoose(value) ==
  /\ value.type = "object"
  /\ ~value.null
  /\ value.pixelmatch = "function"

\* lines 55-64
isNativeBinding(value) ==
  /\ value.type = "object"
  /\ ~value.null
  /\ value.pixelmatch # "absent"
  /\ value.pixelmatch = "function"
  /\ value.pixelmatchCount # "absent"
  /\ value.pixelmatchCount = "function"

\* the buffers the engine is called with: well-formed pairs of one or two
\* pixels, and calls that the validator rejects
InitBackendCall ==
  /\ \/ \E shape \in {<<1, 1>>, <<2, 1>>} :
          LET n == shape[1] * shape[2]
          IN  \E p1 \in [1..n -> {Palette[1], Palette[2]}] :
                \E p2 \in [1..n -> Colours] :
                  /\ img1 = Image(p1, shape)
                  /\ img2 = Image(p2, shape)
                  /\ \E kind \in {"none", "bytes"} :
                       /\ options = [DefaultOptions EXCEPT !.output = kind]
                       /\ output = Blank(IF kind = "none" THEN 0 ELSE 4 * n)
     \/ /\ \E s2 \in {<<1, 1>>, <<2, 1>>}, t1 \in BOOLEAN, n1 \in {4, 8} :
             /\ img1 = RawImage(n1, t1, 0, <<1, 1>>)
             /\ img2 = RawImage(4, TRUE, 0, s2)
        /\ \E o \in {<<"none", 0>>, <<"bytes", 8>>, <<"array", 4>>} :
             /\ options = [DefaultOptions EXCEPT !.output = o[1]]
             /\ output = Blank(o[2])
  /\ pc = "idle"
  /\ i = 0
  /\ diff = 0
  /\ aaCount = 0
  /\ result = <<>>
  /\ err = NoError
  /\ compared = 0

InitBackend ==
  /\ par = Idle /\ cli = Idle
  /\ \E host \in Hosts, first \in Requires, musl \in Requires :
       backend = [pc |-> "load", host |-> host, env |-> [first |-> first, musl |-> musl],
                  binding |-> <<>>, native |-> <<>>, selected |-> <<>>, raised |-> FALSE]
  /\ InitBackendCall

\* what req(triples[key]) does: req(undefined) throws
RequireFirst == IF backend.host \in triples THEN backend.env.first ELSE Throws

Unchanged_call == <<img1, img2, options, output, pc, i, diff, aaCount, result, err, compared>>

\* lines 68-79: the first require; when it throws, the retry on linux and
\* null elsewhere
LoadFirst ==
  /\ backend.pc = "load"
  /\ backend' =
       IF RequireFirst # Throws
       THEN [backend EXCEPT !.pc = "check", !.binding = <<RequireFirst>>]
       ELSE IF backend.host[1] = "linux"
       THEN [backend EXCEPT !.pc = "retry"]
       ELSE [backend EXCEPT !.pc = "select"]
  /\ UNCHANGED Unchanged_call
  /\ UNCHANGED <<par, cli>>

\* line 75 without the try of lines 67 and 81-83 around it
RetryMuslUncaught ==
  /\ backend.pc = "retry"
  /\ backend' =
       IF backend.env.musl # Throws
       THEN [backend EXCEPT !.pc = "check", !.binding = <<backend.env.musl>>]
       ELSE [backend EXCEPT !.pc = "raised", !.raised = TRUE]
  /\ UNCHANGED Unchanged_call
  /\ UNCHANGED <<par, cli>>

\* line 75: the musl package; when it throws, the catch of lines 81-83 returns null
RetryMusl ==
  /\ backend.pc = "retry"
  /\ backend' =
       IF backend.env.musl # Throws
       THEN [backend EXCEPT !.pc = "check", !.binding = <<backend.env.musl>>]
       ELSE [backend EXCEPT !.pc = "select"]
  /\ UNCHANGED Unchanged_call
  /\ UNCHANGED <<par, cli>>

\* line 80
CheckBinding ==
  /\ backend.pc = "check"
  /\ backend' = [backend EXCEPT
                   !.pc = "select",
                   !.native = IF isNativeBinding(backend.binding[1])
                              THEN backend.binding ELSE <<>>]
  /\ UNCHANGED Unchanged_call
  /\ UNCHANGED <<par, cli>>

\* lines 86-116: impl and its _backend
Select ==
  /\ backend.pc = "select"
  /\ backend' = [backend EXCEPT
                   !.pc = "ready",
                   !.selected = IF backend.native # <<>> THEN <<"native">> ELSE <<"js">>]
  /\ UNCHANGED Unchanged_call
  /\ UNCHANGED <<par, cli>>

\* a call of impl(img1, img2, options): fn of lines 92-108, or jsFallback (line 113)
BackendCall ==
  /\ backend.pc = "ready"
  /\ pc = "idle"
  /\ pc' = IF backend.selected = <<"native">> THEN "native" ELSE "validate"
  /\ UNCHANGED <<img1, img2, options, output, i, diff, aaCount, result, err, compared>>
  /\ UNCHANGED aux

\* lines 93-94
NativeValidate ==
  /\ pc = "native"
  /\ LET e == validateInput(img1, img2, options.output, output.bytes)
     IN  /\ err' = e
         /\ pc' = IF e = NoError THEN "engine" ELSE "error"
  /\ UNCHANGED <<img1, img2, options, output, i, diff, aaCount, result, compared>>
  /\ UNCHANGED aux

\* lines 96-107: the native function returns some counts and flag, and the
\* result is built from them; what it stores in output is left open
NativeEngine ==
  /\ pc = "engine"
  /\ \E d \in 0..len, identical \in BOOLEAN :
       \E a \in 0..(len - d) :
         /\ diff' = d
         /\ aaCount' = a
         /\ result' = <<buildResult(d, a, len, identical)>>
  /\ pc' = "done"
  /\ compared' = len
  /\ UNCHANGED <<img1, img2, options, output, i, err>>
  /\ UNCHANGED aux

NextBackend ==
  \/ LoadFirst \/ RetryMusl \/ CheckBinding \/ Select
  \/ BackendCall \/ NativeValidate \/ NativeEngine
  \/ Validate \/ CheckIdentical \/ FastPath \/ ScanPixel \/ Return

SpecBackend == InitBackend /\ [][NextBackend]_vars

\* a package loaded without throwing and exposes both functions
LoadedWithBoth ==
  LET exposes(v) == /\ v # Throws
                    /\ v.type = "object" /\ ~v.null
                    /\ v.pixelmatch = "function" /\ v.pixelmatchCount = "function"
  IN  IF RequireFirst # Throws THEN exposes(RequireFirst)
      ELSE backend.host[1] = "linux" /\ exposes(backend.env.musl)

\* the musl package is required only on linux and only after the first
\* require has thrown
RetriedProperly ==
  backend.pc = "retry" => backend.host[1] = "linux" /\ RequireFirst = Throws

\* an engine is at work on the call, or has returned
EngineEntered == pc \in {"engine", "identical", "fast", "scan", "done"}

\* C19: initialisation never raises and ends with one engine selected,
\* native exactly when a package loaded and exposes both functions, js
\* otherwise; the musl package is tried on linux after a failed first load;
\* a call reaches either engine only once initialisation has ended and
\* validateInput has accepted the call.
C19_BackendSelection ==
  /\ ~backend.raised
  /\ backend.pc \in {"load", "retry", "check", "select", "ready"}
  /\ RetriedProperly
  /\ backend.pc = "ready" =>
       /\ backend.selected \in {<<"native">>, <<"js">>}
       /\ backend.selected = <<"native">> <=> LoadedWithBoth
  /\ backend.pc # "ready" => backend.selected = <<>> /\ pc = "idle"
  /\ EngineEntered => validateInput(img1, img2, options.output, output.bytes) = NoError
  /\ (pc = "error" /\ err[1].kind \in ValidationKinds) => compared = 0 /\ result = <<>>

C19_Witness ==
  /\ backend.pc = "ready"
  /\ backend.selected = <<"native">>
  /\ backend.host[1] = "linux"
  /\ RequireFirst = Throws
  /\ pc = "done"
  /\ Len(result) = 1

\* pixel p is one the scan counts in aaCount
CountedAA(p) ==
  /\ Exceeds(p)
  /\ IsAA(img1.data, img2.data, p % img1.width, p \div img1.width,
          img1.width, img1.height, options)

\* the four bytes the call leaves for pixel p when it draws without a mask
Expected(p) ==
  IF result[1].identical \/ ~Exceeds(p)
  THEN LET val == GrayValue(img1.data, 4 * p, options.alpha)
       IN  <<val, val, val, 255>>
  ELSE IF CountedAA(p) THEN Drawn(options.aaColor)
  ELSE Drawn(DiffColor(options, DeltaAt(p)))

\* C21: with an output buffer and diffMask false, after the call every
\* pixel has been written exactly once, with alpha 255: aaColor where the
\* pixel is counted in aaCount, diffColor or diffColorAlt where it is
\* counted in diffCount, the gray blend of image1's pixel otherwise; the
\* first two classes have aaCount and diffCount members.
C21_FullCoverage ==
  (Done /\ options.output = "bytes" /\ ~options.diffMask)
    => /\ Len(output.writes) = len
       /\ NoRepeats(output.writes)
       /\ \A p \in Pixels :
            /\ \E k \in 1..Len(output.writes) : output.writes[k] = 4 * p
            /\ PixelBytes(p)[4] = 255
            /\ PixelBytes(p) = Expected(p)
       /\ ~result[1].identical =>
            /\ Cardinality({p \in Pixels : CountedAA(p)}) = result[1].aaCount
            /\ Cardinality({p \in Pixels : CountedDiff(p)}) = result[1].diffCount
       /\ result[1].identical => result[1].aaCount = 0 /\ result[1].diffCount = 0
       /\ result[1].aaCount + result[1].diffCount <= len

C21_Witness ==
  /\ Scanned
  /\ options.output = "bytes"
  /\ ~options.diffMask
  /\ len = 4
  /\ \E p \in Pixels : CountedAA(p) /\ PixelBytes(p) = Drawn(options.aaColor)
  /\ \E p \in Pixels : CountedDiff(p)
  /\ \E p \in Pixels : ~Exceeds(p) /\ PixelBytes(p)[1] < 255

(***************************************************************************)
(* colorDelta on its own (pixelmatch.ts 193-231): two samples a and b at   *)
(* the byte offset k of their buffers, measured with yOnly true and with   *)
(* yOnly false, then compared as two 1x1 images at threshold 1.            *)
(***************************************************************************)
\* the corners, edge and face centres and centre of the colour cube, at three alphas
MetricLevels == {0, 128, 255}

MetricSamples ==
  {<<r, g, b, a>> : r \in MetricLevels, g \in MetricLevels, b \in MetricLevels,
                    a \in MetricLevels}

\* byte offsets with five different backgrounds (lines 209-211)
MetricOffsets == {0, 1, 3, 8, 12}

\* a buffer with the sample c at byte offset k
BufferWith(c, k) == [j \in 1..(k + 4) |-> IF j > k THEN c[j - k] ELSE 0]

InitMetric ==
  /\ cli = Idle /\ backend = Idle
  /\ \E a \in MetricSamples, b \in MetricSamples, k \in MetricOffsets :
       par = [pc |-> "sample", a |-> a, b |-> b, k |-> k, luma |-> SZero, full |-> SZero]
  /\ img1 = Image(<<par.a>>, <<1, 1>>)
  /\ img2 = Image(<<par.b>>, <<1, 1>>)
  /\ options = [DefaultOptions EXCEPT !.threshold = <<1, 1>>]
  /\ output = Blank(0)
  /\ pc = "idle"
  /\ i = 0
  /\ diff = 0
  /\ aaCount = 0
  /\ result = <<>>
  /\ err = NoError
  /\ compared = 0

\* colorDelta(img1, img2, k, k, true)
MeasureLuma ==
  /\ par.pc = "sample"
  /\ par' = [par EXCEPT !.pc = "luma",
                        !.luma = colorDelta(BufferWith(par.a, par.k), BufferWith(par.b, par.k),
                                            par.k, par.k, TRUE)]
  /\ UNCHANGED <<img1, img2, options, output, pc, i, diff, aaCount, result, err, compared>>
  /\ UNCHANGED <<cli, backend>>

\* colorDelta(img1, img2, k, k, false)
MeasureFull ==
  /\ par.pc = "luma"
  /\ par' = [par EXCEPT !.pc = "full",
                        !.full = colorDelta(BufferWith(par.a, par.k), BufferWith(par.b, par.k),
                                            par.k, par.k, FALSE)]
  /\ UNCHANGED <<img1, img2, options, output, pc, i, diff, aaCount, result, err, compared>>
  /\ UNCHANGED <<cli, backend>>

\* pixelmatch is called on the two samples as 1x1 images, at threshold 1
CompareAtOne ==
  /\ par.pc = "full"
  /\ pc = "idle"
  /\ pc' = "validate"
  /\ par' = [par EXCEPT !.pc = "compared"]
  /\ UNCHANGED <<img1, img2, options, output, i, diff, aaCount, result, err, compared>>
  /\ UNCHANGED <<cli, backend>>

NextMetric ==
  \/ MeasureLuma \/ MeasureFull \/ CompareAtOne
  \/ Validate \/ CheckIdentical \/ FastPath \/ ScanPixel \/ Return

SpecMetric == InitMetric /\ [][NextMetric]_vars

\* the full-mode value has been computed
Measured == par.pc \in {"full", "compared"}

\* the unit of the scale of Distance: 255^2 * 10^20
MetricUnit == BigShl(Big(65025), 5)

\* the magnitude v on the scale of Distance rounds to the integer n
RoundsTo(v, n) ==
  /\ BigCmp(BigMul(v, Big(2)), BigMul(MetricUnit, Big(2 * n - 1))) >= 0
  /\ BigCmp(BigMul(v, Big(2)), BigMul(MetricUnit, Big(2 * n + 1))) < 0

\* the full-mode value of opaque sample c against opaque sample d
Between(c, d) == colorDelta(BufferWith(c, 0), BufferWith(d, 0), 0, 0, FALSE)

BlackWhite == Between(<<0, 0, 0, 255>>, <<255, 255, 255, 255>>)

RedCyan == Between(<<255, 0, 0, 255>>, <<0, 255, 255, 255>>)

\* C22: the magnitude of the full-mode value never exceeds 35215, so at
\* threshold 1 no pixel exceeds the cutoff and the comparison of the two
\* samples counts nothing.
C22_MetricBound ==
  /\ Measured => /\ BigCmp(par.full.m, MaxMetric) <= 0
                 /\ ~AboveThreshold(par.full, MaxDelta(<<1, 1>>))
  /\ par.pc = "compared" => /\ pc # "error"
                            /\ pc = "done" => /\ result[1].diffCount = 0
                                              /\ result[1].aaCount = 0

C22_Witness ==
  /\ par.pc = "compared"
  /\ pc = "done"
  /\ par.a = <<255, 0, 0, 255>>
  /\ par.b = <<0, 255, 255, 255>>
  /\ RoundsTo(par.full.m, 35215)
  /\ ~result[1].identical

\* C23 as stated: the value of opaque black against opaque white is the
\* maximum of the metric, 35215 after rounding, and no pair of samples has a
\* larger one.
C23_BlackWhiteMax ==
  /\ RoundsTo(BlackWhite.m, 35215)
  /\ Measured => BigCmp(par.full.m, BlackWhite.m) <= 0

\* C23, amended: the maximum of the metric, 35215 after rounding, is the
\* value of opaque red against opaque cyan; no pair of samples has a larger
\* one, and opaque black against opaque white gives 32857 after rounding.
C23_RedCyanMax ==
  /\ RoundsTo(RedCyan.m, 35215)
  /\ RoundsTo(BlackWhite.m, 32857)
  /\ Measured => BigCmp(par.full.m, RedCyan.m) <= 0

C23_Witness ==
  /\ Measured
  /\ par.a = <<0, 255, 255, 255>>
  /\ par.b = <<255, 0, 0, 255>>
  /\ par.k = 0
  /\ BigCmp(par.full.m, RedCyan.m) = 0
  /\ BigCmp(par.full.m, BlackWhite.m) > 0

\* 0.5053 y^2 + 0.299 i^2 + 0.1957 q^2 on the scale of Distance, by plain products
Magnitude(d) ==
  LET y == Luma(d).m
      ii == Lin(CoefI, d[1], d[2], d[3]).m
      q == Lin(CoefQ, d[1], d[2], d[3]).m
  IN  BigAdd(BigAdd(BigMul(Big(5053), BigMul(y, y)), BigMul(Big(2990), BigMul(ii, ii))),
             BigMul(Big(1957), BigMul(q, q)))

\* C24: colorDelta is 0 when the four channels of the samples are equal;
\* the full-mode value is negative exactly when the luma difference y is
\* positive and non-negative otherwise; its magnitude is
\* 0.5053 y^2 + 0.299 i^2 + 0.1957 q^2.
C24_SignAndZero ==
  Measured =>
    /\ par.a = par.b => par.full = SZero /\ par.luma = SZero
    /\ par.full.s = -1 <=> par.luma.s = 1
    /\ par.luma.s # 1 => par.full.s \in {0, 1}
    /\ par.a # par.b =>
         BigCmp(par.full.m, Magnitude(Diffs(par.a, par.b, Background(par.k)))) = 0

C24_Witness ==
  /\ Measured
  /\ par.full.s = -1
  /\ par.luma.s = 1
  /\ par.a[4] = 128
  /\ par.b[4] = 255
  /\ par.k = 3

\* the call of the state with the two images exchanged, on a fresh buffer
Swapped == Pixelmatch(img2, img1, options, Blank(Len(output.bytes)))

\* C27: the call with the two images exchanged completes too and returns
\* the same diffCount, aaCount and identical (and so the same totalPixels
\* and diffPercentage).
C27_SwapSymmetry ==
  Done => LET sw == Swapped
          IN  /\ sw.err = NoError
              /\ sw.result[1].diffCount = result[1].diffCount
              /\ sw.result[1].aaCount = result[1].aaCount
              /\ sw.result[1].identical = result[1].identical
              /\ sw.result[1] = result[1]

C27_Witness ==
  /\ Scanned
  /\ options.output = "bytes"
  /\ result[1].diffCount > 0
  /\ result[1].aaCount > 0
  /\ \E p \in Pixels : CountedDiff(p) /\ Darker(p)
  /\ Swapped.output.bytes # output.bytes

(***************************************************************************)
(* antialiased and hasManySiblings on their own (pixelmatch.ts 118-187),   *)
(* at a pixel <<x, y>> of an image pair: the centre of a 3x3 pair, whose   *)
(* window is whole, and a corner and two edge pixels of a 3x2 pair, whose  *)
(* windows are clipped.  par.aa and par.sib hold the results for image1    *)
(* and image2, par.aaIn and par.sibIn those of the same loops run over     *)
(* the neighbours in another order.                                        *)
(***************************************************************************)
ClassifierCases ==
  {<<(<<3, 3>>), (<<1, 1>>)>>, <<(<<3, 2>>), (<<0, 0>>)>>, <<(<<3, 2>>), (<<1, 0>>)>>,
   <<(<<3, 2>>), (<<2, 1>>)>>}

\* the pixels of an image in the opposite order
Flip(pixels, n) == [k \in 1..n |-> pixels[n + 1 - k]]

InitClassifier ==
  /\ cli = Idle /\ backend = Idle
  /\ \E c \in ClassifierCases :
       LET n == c[1][1] * c[1][2]
       IN  \E p1 \in [1..n -> Colours], flipped \in BOOLEAN :
             /\ img1 = Image(p1, c[1])
             /\ img2 = Image(IF flipped THEN Flip(p1, n) ELSE p1, c[1])
             /\ par = [pc |-> "pixel", x |-> c[2][1], y |-> c[2][2],
                       aa |-> <<>>, sib |-> <<>>, aaIn |-> <<>>, sibIn |-> <<>>]
  /\ options = DefaultOptions
  /\ output = Blank(0)
  /\ pc = "idle"
  /\ i = 0
  /\ diff = 0
  /\ aaCount = 0
  /\ result = <<>>
  /\ err = NoError
  /\ compared = 0

\* lines 70-71 and 162 for the pixel: both classifier calls, and
\* hasManySiblings on both word arrays
Analyse ==
  /\ par.pc = "pixel"
  /\ par' = [par EXCEPT
               !.pc = "analysed",
               !.aa = <<antialiased(img1.data, par.x, par.y, img1.width, img1.height,
                                    img1.data, img2.data),
                        antialiased(img2.data, par.x, par.y, img1.width, img1.height,
                                    img2.data, img1.data)>>,
               !.sib = <<hasManySiblings(img1.data, par.x, par.y, img1.width, img1.height),
                         hasManySiblings(img2.data, par.x, par.y, img1.width, img1.height)>>]
  /\ UNCHANGED <<img1, img2, options, output, pc, i, diff, aaCount, result, err, compared>>
  /\ UNCHANGED <<cli, backend>>

\* the sequence s backwards
Reverse(s) == [k \in 1..Len(s) |-> s[Len(s) + 1 - k]]

\* the members of s at odd positions, then those at even positions
OddsFirst(s) ==
  LET odd == (Len(s) + 1) \div 2
  IN  [k \in 1..Len(s) |-> IF k <= odd THEN s[2 * k - 1] ELSE s[2 * (k - odd)]]

\* the sequence s from its member j + 1 on, then its first j members
Rotate(s, j) == [k \in 1..Len(s) |-> s[((k + j - 1) % Len(s)) + 1]]

\* orders of visit of the neighbours s other than that of the loops
Orders(s) ==
  {Reverse(s), OddsFirst(s), Reverse(OddsFirst(s)), Rotate(s, 1), Rotate(s, Len(s) \div 2),
   Reverse(Rotate(s, 2))}

\* lines 118-167 with the neighbours visited in the order nbrs
antialiasedIn(img, x1, y1, width, height, a32, b32, nbrs) ==
  AfterPass1(img, (y1 * width + x1) * 4, nbrs, width, height,
             Pass1(img, (y1 * width + x1) * 4, nbrs, width,
                   [flat |-> FALSE, zeroes |-> OnBorder(x1, y1, width, height),
                    min |-> SZero, max |-> SZero]),
             a32, b32)

\* lines 170-187 with the neighbours visited in the order nbrs
hasManySiblingsIn(img, x1, y1, width, height, nbrs) ==
  SiblingLoop(img, Word(img, y1 * width + x1), nbrs, width, OnBorder(x1, y1, width, height))

\* the same calls with the neighbours visited in some other order
Reorder ==
  /\ par.pc = "analysed"
  /\ \E nbrs \in Orders(Neighbours(par.x, par.y, img1.width, img1.height)) :
       par' = [par EXCEPT
                 !.pc = "reordered",
                 !.aaIn = <<antialiasedIn(img1.data, par.x, par.y, img1.width, img1.height,
                                          img1.data, img2.data, nbrs),
                            antialiasedIn(img2.data, par.x, par.y, img1.width, img1.height,
                                          img2.data, img1.data, nbrs)>>,
                 !.sibIn = <<hasManySiblingsIn(img1.data, par.x, par.y, img1.width,
                                               img1.height, nbrs),
                             hasManySiblingsIn(img2.data, par.x, par.y, img1.width,
                                               img1.height, nbrs)>>]
  /\ UNCHANGED <<img1, img2, options, output, pc, i, diff, aaCount, result, err, compared>>
  /\ UNCHANGED <<cli, backend>>

NextClassifier == Analyse \/ Reorder

SpecClassifier == InitClassifier /\ [][NextClassifier]_vars

Analysed == par.pc \in {"analysed", "reordered"}

\* the pixels of the 3x3 window around <<x, y>> that are in the image, centre excluded
Window(x, y, width, height) ==
  {<<u, v>> : u \in 0..(width - 1), v \in 0..(height - 1)} \cap
    ({<<u, v>> : u \in (x - 1)..(x + 1), v \in (y - 1)..(y + 1)} \ {<<x, y>>})

\* the 3x3 window around <<x, y>> is clipped by a border of the image
Clipped(x, y, width, height) == x = 0 \/ y = 0 \/ x = width - 1 \/ y = height - 1

\* 1 if the window is clipped, else 0
Bonus(x, y, width, height) == IF Clipped(x, y, width, height) THEN 1 ELSE 0

\* the luma delta of the pixel <<x, y>> of img against its neighbour n
LumaDelta(img, x, y, n, width) ==
  colorDelta(img, img, (y * width + x) * 4, PosOf(n, width), TRUE)

\* conditions (a), (b) and (c) for the pixel <<x, y>> of img
Characterised(img, x, y, width, height, a32, b32) ==
  LET W == Window(x, y, width, height)
      d(n) == LumaDelta(img, x, y, n, width)
  IN  /\ Bonus(x, y, width, height) + Cardinality({n \in W : d(n).s = 0}) <= 2
      /\ \E n \in W : d(n).s < 0
      /\ \E n \in W : d(n).s > 0
      /\ \E n \in W :
           /\ \/ \A m \in W : SCmp(d(n), d(m)) <= 0
              \/ \A m \in W : SCmp(d(n), d(m)) >= 0
           /\ \/ hasManySiblings(a32, n[1], n[2], width, height)
              \/ hasManySiblings(b32, n[1], n[2], width, height)

\* C25: antialiased is true exactly when (a) the border bonus plus the
\* number of neighbours with luma delta 0 is at most 2, (b) some neighbour
\* has a negative and some a positive luma delta, and (c) some neighbour
\* whose delta is the minimum or the maximum has many siblings in the
\* words of image1 or of image2; the pixel counts as anti-aliased when this
\* holds for image1's data or for image2's.
C25_Classifier ==
  Analysed =>
    /\ par.aa[1] <=> Characterised(img1.data, par.x, par.y, img1.width, img1.height,
                                   img1.data, img2.data)
    /\ par.aa[2] <=> Characterised(img2.data, par.x, par.y, img1.width, img1.height,
                                   img2.data, img1.data)
    /\ IsAA(img1.data, img2.data, par.x, par.y, img1.width, img1.height, options)
         <=> (par.aa[1] \/ par.aa[2])

\* image1's centre pixel is anti-aliased although none of its neighbours of
\* extreme delta has many siblings in image1's words: image2's words decide
C25_Witness ==
  /\ Analysed
  /\ par.x = 1 /\ par.y = 1 /\ img1.width = 3 /\ img1.height = 3
  /\ par.aa[1]
  /\ \A n \in Window(1, 1, 3, 3) :
       \/ \E m \in Window(1, 1, 3, 3) :
            /\ SCmp(LumaDelta(img1.data, 1, 1, n, 3), LumaDelta(img1.data, 1, 1, m, 3)) < 0
            /\ \E k \in Window(1, 1, 3, 3) :
                 SCmp(LumaDelta(img1.data, 1, 1, n, 3), LumaDelta(img1.data, 1, 1, k, 3)) > 0
       \/ ~hasManySiblings(img1.data, n[1], n[2], 3, 3)

\* C26: antialiased and hasManySiblings return the same booleans when the
\* neighbours are visited in another order, ties for the minimum or the
\* maximum delta included.
C26_OrderIndependent ==
  par.pc = "reordered" => par.aaIn = par.aa /\ par.sibIn = par.sib

\* two neighbours tie for the minimum delta, one with many siblings and one without
C26_Witness ==
  /\ par.pc = "reordered"
  /\ par.aaIn[1]
  /\ \E n \in Window(par.x, par.y, img1.width, img1.height) :
       \E m \in Window(par.x, par.y, img1.width, img1.height) :
         /\ n # m
         /\ LumaDelta(img1.data, par.x, par.y, n, img1.width).s < 0
         /\ LumaDelta(img1.data, par.x, par.y, n, img1.width)
              = LumaDelta(img1.data, par.x, par.y, m, img1.width)
         /\ \A k \in Window(par.x, par.y, img1.width, img1.height) :
              SCmp(LumaDelta(img1.data, par.x, par.y, n, img1.width),
                   LumaDelta(img1.data, par.x, par.y, k, img1.width)) <= 0
         /\ EitherHasManySiblings(img1.data, img2.data, n, img1.width, img1.height)
         /\ ~EitherHasManySiblings(img1.data, img2.data, m, img1.width, img1.height)

\* C28: hasManySiblings is true exactly when the border bonus plus the
\* number of neighbours in the clipped window whose word equals the
\* centre's is at least 3; every pixel it reads is inside the image.
C28_ManySiblings ==
  Analysed =>
    LET W == Window(par.x, par.y, img1.width, img1.height)
        same(img) == {n \in W : Word(img, n[2] * img1.width + n[1])
                                  = Word(img, par.y * img1.width + par.x)}
        nbrs == Neighbours(par.x, par.y, img1.width, img1.height)
    IN  /\ par.sib[1] <=> Bonus(par.x, par.y, img1.width, img1.height)
                            + Cardinality(same(img1.data)) >= 3
        /\ par.sib[2] <=> Bonus(par.x, par.y, img1.width, img1.height)
                            + Cardinality(same(img2.data)) >= 3
        /\ OnBorder(par.x, par.y, img1.width, img1.height)
             = Bonus(par.x, par.y, img1.width, img1.height)
        /\ {nbrs[k] : k \in 1..Len(nbrs)} = W
        /\ \A k \in 1..Len(nbrs) :
             /\ nbrs[k][2] * img1.width + nbrs[k][1] \in 0..(len - 1)
             /\ 4 * (nbrs[k][2] * img1.width + nbrs[k][1]) + 4 <= Len(img1.data)

\* a clipped window where the bonus decides, and a whole one with two equal neighbours
C28_Witness ==
  /\ Analysed
  /\ par.sib[1]
  /\ Clipped(par.x, par.y, img1.width, img1.height)
  /\ Cardinality({n \in Window(par.x, par.y, img1.width, img1.height) :
                    Word(img1.data, n[2] * img1.width + n[1])
                      = Word(img1.data, par.y * img1.width + par.x)}) = 2
====
